---- MODULE Spec2Model ----
(***************************************************************************)
(* Model of the credential subsystem of CDP Runbooker,                     *)
(* src/core/secure_token_manager.py (class SecureTokenManager).            *)
(*                                                                         *)
(* Values.  A token is a sequence of characters; Python's None and the     *)
(* empty string are both falsy wherever the code tests a token, and are    *)
(* both written NoToken.  A dict (the JSON record, the "who am I" reply)   *)
(* is a record whose DOMAIN is the set of keys present; Python's None in   *)
(* place of a dict is PyNone.  An exception is the set of classification   *)
(* keywords its lower-cased message contains.  A line of a shell           *)
(* configuration file is kept after strip(): the sentinel comment, an      *)
(* export of QUIP_API_TOKEN with the characters that follow the first '=', *)
(* or any other text.                                                      *)
(*                                                                         *)
(* The filesystem of specification Spec performs every operation asked of  *)
(* it (no permission or disk errors); FaultSpec lets operations raise.     *)
(*                                                                         *)
(* Specifications: Spec (one top-level call), TwoCallSpec (two successive  *)
(* get_secure_token calls), FaultSpec (construction and get_secure_token   *)
(* with failing filesystem operations), DiagSpec (diagnose_token),         *)
(* StoreSpec (store_token_securely stepped through validation, write and   *)
(* chmod), RaceSpec (a storing and a loading process sharing the file,     *)
(* with interrupted writes), and CryptoSpec, LoadSpec, CleanupSpec and     *)
(* DetectSpec (direct calls of helper methods).                            *)
(***************************************************************************)
EXTENDS Naturals, Sequences, FiniteSets

VARIABLES
    crypto,          \* CRYPTO_AVAILABLE (import-time constant of the process)
    shell,           \* $SHELL
    config_file,     \* content of self.config_file (config.json)
    home,            \* content of each shell configuration file
    clock,           \* datetime.now(), advanced at the start of every call
    faults,          \* the filesystem operations that raise OSError
    perms,           \* modes of self.config_dir and self.config_file
    procs,           \* frames of processes that share the credential file
    direct,          \* frame of a direct call of one helper method
    prev,            \* what the preceding get_secure_token call found and returned
    pc,              \* position of the running call
    op,              \* the top-level operation running (or last run)
    calls,           \* number of top-level calls made
    vtoken,          \* _validate_token: token
    max_retries,     \* _validate_token: max_retries
    attempt,         \* _validate_token: loop variable
    user_info,       \* value returned by the last _validate_token
    vret,            \* where the running _validate_token returns to
    verr,            \* the exception of the last attempt, if it raised
    sleeps,          \* time.sleep arguments of the current _validate_token
    token,           \* get_secure_token: token
    legacy_tokens,   \* get_secure_token: legacy_tokens
    midx,            \* _handle_migration: position in legacy_tokens
    selected_token,  \* _handle_migration: selected_token
    new_token,       \* _setup_new_token: new_token
    setup_ctx,       \* who called _setup_new_token
    store_ctx,       \* who called store_token_securely
    choice,          \* last answer of msg.get_user_choice
    result,          \* outcome of the last top-level call
    \* history of the current top-level call
    cfg0,            \* config_file when the call started
    home0,           \* home when the call started
    nValidate,       \* _validate_token calls
    tries,           \* network attempts of the current _validate_token
    allTransient,    \* every attempt of the current _validate_token was transient
    nMigPrompt,      \* migration prompts shown
    nSetupPrompt,    \* setup prompts shown
    nInput,          \* tokens asked from the user
    didDetect,       \* _detect_legacy_tokens has run
    storedOk,        \* outcome of validating the stored token
    migStored        \* store_token_securely returned True in _handle_migration

env   == <<crypto, shell, config_file, home, clock, faults, perms, procs,
           direct, prev>>
ctl   == <<pc, op, calls>>
vfr   == <<vtoken, max_retries, attempt, user_info, vret, verr, sleeps>>
gfr   == <<token, legacy_tokens, midx, selected_token, new_token, setup_ctx,
           store_ctx, choice>>
hist  == <<cfg0, home0, nValidate, tries, allTransient, nMigPrompt,
           nSetupPrompt, nInput, didDetect, storedOk, migStored>>
vars  == <<env, ctl, vfr, gfr, result, hist>>

(***************************************************************************)
(* Bounds of the model                                                     *)
(***************************************************************************)
MaxCalls == 1        \* top-level calls in one behaviour
MaxInputs == 2       \* tokens typed in one _setup_new_token loop
MaxRetriesArg == 4   \* largest max_retries passed to a direct _validate_token

(***************************************************************************)
(* Program constants                                                       *)
(***************************************************************************)
MinTokenLen == 30
DefaultMaxRetries == 3
CONFIG_VERSION == "1.0"

TransientKeywords ==
    {"timeout", "connection", "network", "temporary", "service unavailable",
     "502", "503", "504"}
AuthKeywords == {"unauthorized", "401", "forbidden", "403", "invalid", "expired"}

(***************************************************************************)
(* Values                                                                  *)
(***************************************************************************)
Rep(c, n) == [i \in 1..n |-> c]
NoToken == <<>>
PyNone == [py_none |-> TRUE]
IsNone(d) == "py_none" \in DOMAIN d
\* Python truthiness of a dict-or-None
Truthy(d) == ~IsNone(d) /\ DOMAIN d # {}

TokS == Rep("s", MinTokenLen - 1)
TokA == Rep("a", MinTokenLen)
TokB == Rep("b", MinTokenLen + 1)
TokC == Rep("c", MinTokenLen + 1)
Tokens == {TokS, TokA, TokB, TokC}
InputTokens == {TokS, TokA, TokB}

\* the identifier tuple (machine, user, home) of this process and of another
ThisMachine == "hostA:alice:/home/alice"
OtherMachine == "hostB:alice:/home/alice"

(***************************************************************************)
(* Key derivation and the encryption contract                              *)
(***************************************************************************)
\* The module binds the name base64 in the same try block as the cryptography
\* imports (lines 26-33), after them: when the library is missing the
\* ImportError leaves base64 unbound, and each fallback branch raises NameError
\* at its first use of base64.
NoKey == [kdf |-> "NameError", id |-> "none"]

\* _generate_encryption_key: deterministic in the identifier tuple; PBKDF2
\* with the cryptography library; without it line 266 raises NameError (the
\* value NoKey stands for the raise).
generate_encryption_key(cryptoAvailable, identifier) ==
    IF cryptoAvailable
    THEN [kdf |-> "pbkdf2-sha256", id |-> identifier]
    ELSE NoKey

NameError == [scheme |-> "NameError", key |-> [kdf |-> "none", id |-> "none"], pt |-> <<>>]

\* _encrypt_token: a Fernet token under the derived key, base64-framed; the
\* fallback branch raises NameError (the value NameError stands for the raise).
encrypt_token(tok, cryptoAvailable, identifier) ==
    IF cryptoAvailable
    THEN [scheme |-> "fernet",
          key |-> generate_encryption_key(cryptoAvailable, identifier),
          pt |-> tok]
    ELSE NameError

\* mutant: the plaintext is recovered whatever the key
decrypt_token_AnyKey(ct, cryptoAvailable, identifier) ==
    IF cryptoAvailable /\ ct.scheme = "fernet" THEN ct.pt ELSE NoToken
\* _decrypt_token: Fernet verifies the HMAC under the derived key and raises
\* InvalidToken otherwise; every exception, the fallback's NameError included,
\* is caught and yields None.
decrypt_token(ct, cryptoAvailable, identifier) ==
    IF cryptoAvailable
    THEN IF /\ ct.scheme = "fernet"
            /\ ct.key = generate_encryption_key(cryptoAvailable, identifier)
         THEN ct.pt
         ELSE NoToken
    ELSE NoToken

\* ciphertext values found on disk that no encrypt_token call of this program
\* and machine produces
EmptyCipher == [scheme |-> "empty", key |-> [kdf |-> "none", id |-> "none"], pt |-> NoToken]
JunkCipher == [scheme |-> "junk", key |-> [kdf |-> "none", id |-> "none"], pt |-> NoToken]

(***************************************************************************)
(* The credential file                                                     *)
(***************************************************************************)
Absent == [kind |-> "absent"]
Garbage == [kind |-> "garbage"]       \* content json.load cannot parse
Json(d) == [kind |-> "json", data |-> d]

\* the record store_token_securely dumps
StoredRecord(tok, info, cryptoAvailable, identifier, now) ==
    Json([version |-> CONFIG_VERSION,
          encrypted_token |-> encrypt_token(tok, cryptoAvailable, identifier),
          created_at |-> now,
          last_used |-> now,
          user_name |-> IF "name" \in DOMAIN info THEN info.name ELSE "Unknown"])

\* mutant: the write-back dumps the timestamp alone
SetLastUsed_Alone(d, now) == [last_used |-> now]
\* mutant: the write-back renews created_at as well
SetLastUsed_Created(d, now) ==
    [k \in DOMAIN d \cup {"last_used"} |->
        IF k \in {"last_used", "created_at"} THEN now ELSE d[k]]
\* config_data['last_used'] = now (the key is added when it was missing)
SetLastUsed(d, now) ==
    [k \in DOMAIN d \cup {"last_used"} |-> IF k = "last_used" THEN now ELSE d[k]]

\* mutant: the version test of line 306 left out
load_secure_token_AnyVersion(file, cryptoAvailable, identifier, now, fl) ==
    IF file.kind # "json" THEN [token |-> NoToken, file |-> file]
    ELSE IF ~("encrypted_token" \in DOMAIN file.data)
            \/ file.data.encrypted_token = EmptyCipher
         THEN [token |-> NoToken, file |-> file]
    ELSE LET tok == decrypt_token(file.data.encrypted_token, cryptoAvailable, identifier)
         IN  IF tok # NoToken
             THEN [token |-> tok, file |-> Json(SetLastUsed(file.data, now))]
             ELSE [token |-> tok, file |-> file]

\* mutant: a read that yields no token unlinks the file
load_secure_token_Deleting(file, cryptoAvailable, identifier, now, fl) ==
    IF file.kind # "json" THEN [token |-> NoToken, file |-> Absent]
    ELSE IF ~("version" \in DOMAIN file.data /\ file.data.version = CONFIG_VERSION)
         THEN [token |-> NoToken, file |-> Absent]
    ELSE IF ~("encrypted_token" \in DOMAIN file.data)
            \/ file.data.encrypted_token = EmptyCipher
         THEN [token |-> NoToken, file |-> Absent]
    ELSE LET tok == decrypt_token(file.data.encrypted_token, cryptoAvailable, identifier)
         IN  IF tok # NoToken
             THEN [token |-> tok, file |-> Json(SetLastUsed(file.data, now))]
             ELSE [token |-> tok, file |-> Absent]

\* _load_secure_token: the token returned and the file it leaves behind.  With
\* fl the filesystem operations that raise: every exception, the one of the
\* last_used write-back included, ends in the `return None` of line 327.
load_secure_token(file, cryptoAvailable, identifier, now, fl) ==
    IF file.kind = "absent" THEN [token |-> NoToken, file |-> file]
    ELSE IF "read" \in fl THEN [token |-> NoToken, file |-> file]
    ELSE IF file.kind # "json" THEN [token |-> NoToken, file |-> file]
    ELSE IF ~("version" \in DOMAIN file.data /\ file.data.version = CONFIG_VERSION)
         THEN [token |-> NoToken, file |-> file]
    ELSE IF ~("encrypted_token" \in DOMAIN file.data)
            \/ file.data.encrypted_token = EmptyCipher
         THEN [token |-> NoToken, file |-> file]
    ELSE LET tok == decrypt_token(file.data.encrypted_token, cryptoAvailable, identifier)
         IN  IF tok # NoToken
             THEN IF "write" \in fl
                  THEN [token |-> NoToken, file |-> file]
                  ELSE [token |-> tok, file |-> Json(SetLastUsed(file.data, now))]
             ELSE [token |-> tok, file |-> file]

\* mutant: the unlink of line 333 left out
remove_secure_token_Kept(file, fl) == file
\* _remove_secure_token: an unlink that raises is logged and leaves the file
remove_secure_token(file, fl) ==
    IF file.kind # "absent" /\ "unlink" \notin fl THEN Absent ELSE file

(***************************************************************************)
(* Shell configuration files                                               *)
(***************************************************************************)
DQ == "\""
SQ == "'"
Sentinel == [kind |-> "sentinel", value |-> <<>>]
Export(v) == [kind |-> "export", value |-> v]
Text(v) == [kind |-> "text", value |-> v]
Quoted(q, s) == <<q>> \o s \o <<q>>

NoFile == [exists |-> FALSE, lines |-> <<>>]
File(ls) == [exists |-> TRUE, lines |-> ls]

ShellFiles == {".zshrc", ".zprofile", ".bashrc", ".bash_profile"}

\* _get_shell_config_files
get_shell_config_files(sh) ==
    IF sh = "zsh" THEN <<".zshrc", ".zprofile">>
    ELSE IF sh = "bash" THEN <<".bashrc", ".bash_profile">>
    ELSE <<".zshrc", ".bashrc", ".bash_profile", ".zprofile">>

\* _extract_token_from_line, applied to the characters after the first '='
extract_token_from_line(line) ==
    LET token_part == line.value
        n == Len(token_part)
        tok == IF n > 0 /\ token_part[1] = DQ /\ token_part[n] = DQ
                 THEN SubSeq(token_part, 2, n - 1)
               ELSE IF n > 0 /\ token_part[1] = SQ /\ token_part[n] = SQ
                 THEN SubSeq(token_part, 2, n - 1)
               ELSE token_part
    IN  IF tok # <<>> /\ Len(tok) > MinTokenLen THEN tok ELSE NoToken

\* the scan of one file in _detect_legacy_tokens, from line i on: the token of
\* the first sentinel line whose next line exports an acceptable token
RECURSIVE ScanLegacy(_, _)
ScanLegacy(lines, i) ==
    IF i > Len(lines) THEN NoToken
    ELSE IF /\ lines[i].kind = "sentinel"
            /\ i + 1 <= Len(lines)
            /\ lines[i + 1].kind = "export"
            /\ extract_token_from_line(lines[i + 1]) # NoToken
         THEN extract_token_from_line(lines[i + 1])
         ELSE ScanLegacy(lines, i + 1)

\* _detect_legacy_tokens over the files from position k of config_files
RECURSIVE DetectFrom(_, _, _)
DetectFrom(config_files, fs, k) ==
    IF k > Len(config_files) THEN <<>>
    ELSE LET f == config_files[k]
             found == IF fs[f].exists THEN ScanLegacy(fs[f].lines, 1) ELSE NoToken
         IN  (IF found # NoToken THEN <<[file |-> f, token |-> found]>> ELSE <<>>)
             \o DetectFrom(config_files, fs, k + 1)

detect_legacy_tokens(sh, fs) == DetectFrom(get_shell_config_files(sh), fs, 1)

\* the rewrite loop of _cleanup_legacy_tokens, from line i on
RECURSIVE CleanLines(_, _)
CleanLines(lines, i) ==
    IF i > Len(lines) THEN <<>>
    ELSE IF lines[i].kind = "sentinel"
         THEN IF i + 1 <= Len(lines) /\ lines[i + 1].kind = "export"
              THEN CleanLines(lines, i + 2)
              ELSE CleanLines(lines, i + 1)
         ELSE <<lines[i]>> \o CleanLines(lines, i + 1)

\* mutant: the files are rewritten as they were read
cleanup_legacy_tokens_Nothing(legacy, fs) == fs
\* _cleanup_legacy_tokens: every file of legacy_tokens is rewritten
cleanup_legacy_tokens(legacy, fs) ==
    LET files == {legacy[i].file : i \in 1..Len(legacy)}
    IN  [f \in DOMAIN fs |->
            IF f \in files /\ fs[f].exists
            THEN File(CleanLines(fs[f].lines, 1))
            ELSE fs[f]]

(***************************************************************************)
(* The remote service                                                      *)
(***************************************************************************)
Response(d) == [kind |-> "response", info |-> d, msg |-> {}]
Raise(m) == [kind |-> "exception", info |-> PyNone, msg |-> m]

Identity == [id |-> "u1", name |-> "Ann"]
\* what one get_authenticated_user() call can do
Outcomes ==
    { Response(Identity),                  \* identity with identifier and name
      Response([id |-> ""]),               \* identifier present but empty
      Response([name |-> "Ann"]),          \* payload without identifier
      Response(PyNone),                    \* no payload
      Raise({"timeout"}),
      Raise({"401", "unauthorized"}),
      Raise({"connection", "expired"}),    \* e.g. HTTPSConnectionPool ... certificate has expired
      Raise({}) }                          \* message with no keyword

IsTransient(m) == m \cap TransientKeywords # {}
IsAuth(m) == m \cap AuthKeywords # {}
\* mutant: every exception is retried
Classify_AllTransient(m) == "transient"
\* the branch of the except clause of _validate_token taken for message m
Classify(m) ==
    IF IsTransient(m) THEN "transient"
    ELSE IF IsAuth(m) THEN "auth"
    ELSE "other"

\* mutant: the local length test off by one
TooShort_OffByOne(tok) == tok = NoToken \/ Len(tok) < MinTokenLen - 1
\* _validate_token, line 620: rejected locally, before any request
TooShort(tok) == tok = NoToken \/ Len(tok) < MinTokenLen
\* _validate_token, line 704: the reply counts as an identity
HasIdentity(info) == Truthy(info) /\ "id" \in DOMAIN info
\* mutant: the last attempt is retried too
ShouldRetry_OneMore(att, mr) == att < mr
\* _validate_token, line 738: a transient failure of attempt att is retried
ShouldRetry(att, mr) == att < mr - 1
\* mutant: the wait doubles with every retry
WaitTime_Doubling(att) == 2 ^ (att + 1)
\* _validate_token, line 739
WaitTime(att) == (att + 1) * 2
\* _setup_new_token, line 584: the input is refused without validation
InputRefused(tok) == tok = NoToken \/ Len(tok) < MinTokenLen
\* mutant: the test of line 131 inverted
StoredTokenAccepted_Inverted(info) == ~Truthy(info)
\* get_secure_token, line 131: the stored token is returned
StoredTokenAccepted(info) == Truthy(info)
\* mutant: the legacy token is selected whatever its validation returned
LegacyTokenAccepted_Always(info) == TRUE
\* _handle_migration, line 465: the legacy token is selected
LegacyTokenAccepted(info) == Truthy(info)
\* mutant: the cleanup runs whatever store_token_securely returned
CleanupAfterStore_Always(stored) == TRUE
\* _handle_migration, line 474: the legacy entries are cleaned up
CleanupAfterStore(stored) == stored
\* mutant: the typed token goes on to be stored whatever its validation returned
NewTokenAccepted_Always(info) == TRUE
\* _setup_new_token, line 590: the typed token goes on to be stored
NewTokenAccepted(info) == Truthy(info)
\* msg.get_user_choice(..., ["y", "n"], "y") followed by `choice not in ['y', 'yes']`
Choices == {"y", "n"}
\* mutant: the test of the answer inverted
Declined_Inverted(c) == c \in {"y", "yes"}
Declined(c) == c \notin {"y", "yes"}

(***************************************************************************)
(* Initial states                                                          *)
(***************************************************************************)
OldRecord(tok, identifier, ver) ==
    [version |-> ver,
     encrypted_token |-> encrypt_token(tok, TRUE, identifier),
     created_at |-> 0, last_used |-> 0, user_name |-> "Ann"]

InitConfigFiles ==
    { Absent,
      Garbage,
      Json(OldRecord(TokA, ThisMachine, CONFIG_VERSION)),
      Json(OldRecord(TokS, ThisMachine, CONFIG_VERSION)),
      Json(OldRecord(TokA, ThisMachine, "2.0")),
      Json(OldRecord(TokA, OtherMachine, CONFIG_VERSION)),
      Json([version |-> CONFIG_VERSION, created_at |-> 0, last_used |-> 0,
            user_name |-> "Ann"]),
      Json([OldRecord(TokA, ThisMachine, CONFIG_VERSION)
                EXCEPT !.encrypted_token = JunkCipher]) }

Layout(zshrc, bashrc, bash_profile) ==
    [f \in ShellFiles |->
        IF f = ".zshrc" THEN zshrc
        ELSE IF f = ".bashrc" THEN bashrc
        ELSE IF f = ".bash_profile" THEN bash_profile
        ELSE NoFile]

HomeEmpty == Layout(NoFile, NoFile, NoFile)
HomeOne ==
    Layout(NoFile,
           File(<<Text(<<"x">>), Sentinel, Export(Quoted(DQ, TokB))>>),
           NoFile)
HomeTwoShells ==
    Layout(File(<<Sentinel, Export(Quoted(SQ, TokC))>>),
           File(<<Sentinel, Export(TokB), Text(<<"x">>)>>),
           NoFile)
HomeNoise ==
    Layout(NoFile,
           File(<<Sentinel, Text(<<"x">>)>>),
           File(<<Sentinel, Export(Quoted(DQ, TokA))>>))
HomeRepeated ==
    Layout(NoFile,
           File(<<Sentinel, Export(TokS), Text(<<"x">>), Sentinel, Export(TokB)>>),
           File(<<Text(<<"y">>), Sentinel, Export(Quoted(DQ, TokC)), Sentinel>>))

\* $SHELL and the shell configuration files found at start
InitShellHomes ==
    { <<"bash", HomeEmpty>>, <<"bash", HomeOne>>, <<"zsh", HomeTwoShells>>,
      <<"other", HomeTwoShells>>, <<"bash", HomeNoise>>, <<"bash", HomeRepeated>> }

NoErr == [raised |-> FALSE, msg |-> {}]
Pending == [kind |-> "pending", token |-> NoToken, info |-> PyNone]
ReturnToken(tok) == [kind |-> "token", token |-> tok, info |-> PyNone]
ReturnInfo(info) == [kind |-> "info", token |-> NoToken, info |-> info]
RaiseValueError == [kind |-> "ValueError", token |-> NoToken, info |-> PyNone]

(***************************************************************************)
(* File modes                                                              *)
(***************************************************************************)
NoMode == "none"
\* the modes mkdir() and open(..., 'w') give a new directory and a new file
\* (0777 and 0666 less the umask, 022 by default)
DirCreateMode == "0755"
FileCreateMode == "0644"
\* the modes the code asks for
DirMode == "0700"
FileMode == "0600"
\* directory and file as the program leaves them when every chmod succeeds
SecurePerms(file) ==
    [dir |-> DirMode, file |-> IF file = Absent THEN NoMode ELSE FileMode]
\* open(self.config_file, 'w'): a new file gets the creation mode, an
\* existing file keeps its mode
open_w(file, mode) == IF file = Absent THEN FileCreateMode ELSE mode
\* _set_secure_permissions: an os.chmod that raises is logged and swallowed
set_secure_permissions(mode, fl) == IF "chmod" \in fl THEN mode ELSE FileMode
\* the mode of the file after store_token_securely returned ok
store_mode(file, mode, ok, fl) ==
    IF ok THEN set_secure_permissions(open_w(file, mode), fl) ELSE mode
\* the mode of the file after _remove_secure_token left file1
remove_mode(file1, mode) == IF file1 = Absent THEN NoMode ELSE mode

\* no get_secure_token call has preceded
NoPrev == [calls |-> 0]
\* no direct call of a helper method made
NoCall == [fn |-> "none"]
\* a single process: no other process shares the credential file
NoProcs == <<>>

\* no call made yet
InitCall ==
    /\ clock = 0
    /\ pc = "idle" /\ op = "none" /\ calls = 0
    /\ vtoken = NoToken /\ max_retries = 0 /\ attempt = 0 /\ user_info = PyNone
    /\ vret = "none" /\ verr = NoErr /\ sleeps = <<>>
    /\ token = NoToken /\ legacy_tokens = <<>> /\ midx = 0
    /\ selected_token = NoToken /\ new_token = NoToken
    /\ setup_ctx = "none" /\ store_ctx = "none" /\ choice = "none"
    /\ result = Pending
    /\ cfg0 = config_file /\ home0 = home
    /\ nValidate = 0 /\ tries = 0 /\ allTransient = TRUE
    /\ nMigPrompt = 0 /\ nSetupPrompt = 0 /\ nInput = 0
    /\ didDetect = FALSE /\ storedOk = "none" /\ migStored = FALSE

\* the manager constructed and no call made yet, in a single process
InitFrames ==
    /\ InitCall
    /\ perms = SecurePerms(config_file)
    /\ procs = NoProcs

Init ==
    /\ crypto \in BOOLEAN
    /\ \E sh \in InitShellHomes : shell = sh[1] /\ home = sh[2]
    /\ config_file \in InitConfigFiles
    /\ faults = {} /\ direct = NoCall /\ prev = NoPrev
    /\ InitFrames

(***************************************************************************)
(* _validate_token                                                         *)
(***************************************************************************)
\* Entry of _validate_token(tok, mr), called with nv calls made before: lines
\* 620-623 return None at once; an empty range(mr) falls through to line 774.
EnterValidate(tok, mr, ret, nv) ==
    /\ vtoken' = tok /\ max_retries' = mr /\ attempt' = 0
    /\ sleeps' = <<>> /\ verr' = NoErr /\ user_info' = PyNone
    /\ nValidate' = nv + 1 /\ tries' = 0 /\ allTransient' = TRUE
    /\ IF TooShort(tok) \/ mr <= 0
       THEN pc' = ret /\ vret' = "none"
       ELSE pc' = "validate_attempt" /\ vret' = ret

\* One pass of the loop of lines 640-767: the request and what follows it.
ValidateAttempt(o) ==
    /\ pc = "validate_attempt"
    /\ tries' = tries + 1
    /\ IF o.kind = "response"
       THEN /\ user_info' = IF HasIdentity(o.info) THEN o.info ELSE PyNone
            /\ verr' = NoErr /\ allTransient' = FALSE
            /\ pc' = vret /\ vret' = "none"
            /\ UNCHANGED <<attempt, sleeps>>
       ELSE /\ verr' = [raised |-> TRUE, msg |-> o.msg]
            /\ user_info' = PyNone
            /\ IF Classify(o.msg) = "transient"
               THEN /\ allTransient' = allTransient
                    /\ IF ShouldRetry(attempt, max_retries)
                       THEN /\ sleeps' = Append(sleeps, WaitTime(attempt))
                            /\ attempt' = attempt + 1
                            /\ UNCHANGED <<pc, vret>>
                       ELSE /\ pc' = vret /\ vret' = "none"
                            /\ UNCHANGED <<attempt, sleeps>>
               ELSE /\ allTransient' = FALSE
                    /\ pc' = vret /\ vret' = "none"
                    /\ UNCHANGED <<attempt, sleeps>>
    /\ UNCHANGED <<env, op, calls, vtoken, max_retries, gfr, result>>
    /\ UNCHANGED <<cfg0, home0, nValidate, nMigPrompt, nSetupPrompt, nInput,
                   didDetect, storedOk, migStored>>

\* A direct call _validate_token(tok, mr)
CallValidateToken(tok, mr) ==
    /\ pc = "idle" /\ calls < MaxCalls
    /\ op' = "_validate_token" /\ calls' = calls + 1 /\ clock' = clock + 1
    /\ result' = Pending
    /\ cfg0' = config_file /\ home0' = home
    /\ EnterValidate(tok, mr, "validate_done", 0)
    /\ nMigPrompt' = 0 /\ nSetupPrompt' = 0 /\ nInput' = 0
    /\ didDetect' = FALSE /\ storedOk' = "none" /\ migStored' = FALSE
    /\ token' = NoToken /\ legacy_tokens' = <<>> /\ midx' = 0
    /\ selected_token' = NoToken /\ new_token' = NoToken
    /\ setup_ctx' = "none" /\ store_ctx' = "none" /\ choice' = "none"
    /\ UNCHANGED <<faults, perms, procs, direct, prev, crypto, shell, config_file,
                   home>>

ValidateDone ==
    /\ pc = "validate_done"
    /\ pc' = "idle"
    /\ result' = ReturnInfo(user_info)
    /\ UNCHANGED <<env, op, calls, vfr, gfr, hist>>

\* everything EnterValidate assigns, pc apart
vh == <<vtoken, max_retries, attempt, user_info, vret, verr, sleeps,
        nValidate, tries, allTransient>>
ResetValidate ==
    /\ vtoken' = NoToken /\ max_retries' = 0 /\ attempt' = 0
    /\ sleeps' = <<>> /\ verr' = NoErr /\ user_info' = PyNone /\ vret' = "none"
    /\ nValidate' = 0 /\ tries' = 0 /\ allTransient' = TRUE

(***************************************************************************)
(* store_token_securely, after its validation (lines 164-192)              *)
(***************************************************************************)
\* mutant: the test of the identity (line 164) left out
store_write_Unvalidated(file, tok, info, cryptoAvailable, identifier, now, fl) ==
    IF encrypt_token(tok, cryptoAvailable, identifier) = NameError
    THEN [ok |-> FALSE, file |-> file]
    ELSE IF "write" \in fl THEN [ok |-> FALSE, file |-> file]
    ELSE [ok |-> TRUE, file |-> StoredRecord(tok, info, cryptoAvailable, identifier, now)]
\* the value returned and the file left behind; an exception of
\* _encrypt_token is raised before the file is opened, and an open() that
\* raises leaves the file as it was
store_write(file, tok, info, cryptoAvailable, identifier, now, fl) ==
    IF ~Truthy(info) THEN [ok |-> FALSE, file |-> file]
    ELSE IF encrypt_token(tok, cryptoAvailable, identifier) = NameError
         THEN [ok |-> FALSE, file |-> file]
    ELSE IF "write" \in fl THEN [ok |-> FALSE, file |-> file]
    ELSE [ok |-> TRUE, file |-> StoredRecord(tok, info, cryptoAvailable, identifier, now)]

(***************************************************************************)
(* get_secure_token                                                        *)
(***************************************************************************)
\* lines 126-130: the load (with its last_used write-back) and, for a token,
\* the call of _validate_token
get_secure_token_entry ==
    /\ pc = "idle"
    /\ op' = "get_secure_token" /\ calls' = calls + 1 /\ clock' = clock + 1
    /\ result' = Pending
    /\ cfg0' = config_file /\ home0' = home
    /\ LET ld == load_secure_token(config_file, crypto, ThisMachine, clock + 1, faults)
       IN  /\ config_file' = ld.file
           /\ token' = ld.token
           /\ IF ld.token # NoToken
              THEN EnterValidate(ld.token, DefaultMaxRetries, "gst_validated", 0)
              ELSE ResetValidate /\ pc' = "detect"
    /\ nMigPrompt' = 0 /\ nSetupPrompt' = 0 /\ nInput' = 0
    /\ didDetect' = FALSE /\ storedOk' = "none" /\ migStored' = FALSE
    /\ legacy_tokens' = <<>> /\ midx' = 0
    /\ selected_token' = NoToken /\ new_token' = NoToken
    /\ setup_ctx' = "none" /\ store_ctx' = "none" /\ choice' = "none"
    /\ UNCHANGED <<faults, perms, procs, direct, crypto, shell, home>>

\* a call of get_secure_token
CallGetSecureToken ==
    /\ calls < MaxCalls
    /\ get_secure_token_entry
    /\ UNCHANGED prev

\* lines 131-139: return the stored token, or remove the file and go on
GstValidated ==
    /\ pc = "gst_validated"
    /\ storedOk' = IF Truthy(user_info) THEN "ok" ELSE "failed"
    /\ IF StoredTokenAccepted(user_info)
       THEN /\ result' = ReturnToken(token)
            /\ pc' = "idle"
            /\ UNCHANGED <<config_file, perms>>
       ELSE /\ config_file' = remove_secure_token(config_file, faults)
            /\ perms' = [perms EXCEPT !.file = remove_mode(config_file', @)]
            /\ pc' = "detect"
            /\ UNCHANGED result
    /\ UNCHANGED <<faults, procs, direct, prev, crypto, shell, home, clock, op,
                   calls, vh, gfr>>
    /\ UNCHANGED <<cfg0, home0, nMigPrompt, nSetupPrompt, nInput,
                   didDetect, migStored>>

\* lines 142-149: legacy detection, then migration or setup
Detect ==
    /\ pc = "detect"
    /\ legacy_tokens' = detect_legacy_tokens(shell, home)
    /\ didDetect' = TRUE
    /\ IF legacy_tokens' # <<>>
       THEN pc' = "migration_prompt" /\ UNCHANGED setup_ctx
       ELSE pc' = "setup_prompt" /\ setup_ctx' = "get_secure_token"
    /\ UNCHANGED <<env, op, calls, vh, result>>
    /\ UNCHANGED <<token, midx, selected_token, new_token, store_ctx, choice>>
    /\ UNCHANGED <<cfg0, home0, nMigPrompt, nSetupPrompt, nInput,
                   storedOk, migStored>>

(***************************************************************************)
(* _handle_migration                                                       *)
(***************************************************************************)
\* lines 441-464: the prompt; on yes the first legacy token is validated
MigrationPrompt(c) ==
    /\ pc = "migration_prompt"
    /\ choice' = c
    /\ nMigPrompt' = nMigPrompt + 1
    /\ IF Declined(c)
       THEN /\ pc' = "setup_prompt" /\ setup_ctx' = "get_secure_token"
            /\ UNCHANGED <<vh, midx>>
       ELSE /\ midx' = 1
            /\ EnterValidate(legacy_tokens[1].token, DefaultMaxRetries,
                             "migration_validated", nValidate)
            /\ UNCHANGED setup_ctx
    /\ UNCHANGED <<env, op, calls, result>>
    /\ UNCHANGED <<token, legacy_tokens, selected_token, new_token, store_ctx>>
    /\ UNCHANGED <<cfg0, home0, nSetupPrompt, nInput, didDetect,
                   storedOk, migStored>>

\* lines 463-474: the selection loop; the selected token goes to
\* store_token_securely, which validates it again (line 163)
MigrationValidated ==
    /\ pc = "migration_validated"
    /\ IF LegacyTokenAccepted(user_info)
       THEN /\ selected_token' = legacy_tokens[midx].token
            /\ store_ctx' = "migration"
            /\ EnterValidate(legacy_tokens[midx].token, DefaultMaxRetries,
                             "store_validated", nValidate)
            /\ UNCHANGED <<midx, setup_ctx>>
       ELSE IF midx < Len(legacy_tokens)
       THEN /\ midx' = midx + 1
            /\ EnterValidate(legacy_tokens[midx + 1].token, DefaultMaxRetries,
                             "migration_validated", nValidate)
            /\ UNCHANGED <<selected_token, store_ctx, setup_ctx>>
       ELSE /\ pc' = "setup_prompt" /\ setup_ctx' = "migration_try"
            /\ UNCHANGED <<vh, midx, selected_token, store_ctx>>
    /\ UNCHANGED <<env, op, calls, result>>
    /\ UNCHANGED <<token, legacy_tokens, new_token, choice>>
    /\ UNCHANGED <<cfg0, home0, nMigPrompt, nSetupPrompt, nInput,
                   didDetect, storedOk, migStored>>

\* store_token_securely lines 164-192 and what its caller does with the
\* value: _handle_migration lines 474-488, _setup_new_token lines 595-601
StoreValidated ==
    /\ pc = "store_validated"
    /\ LET tok == IF store_ctx = "migration" THEN selected_token ELSE new_token
           st == store_write(config_file, tok, user_info, crypto, ThisMachine, clock, faults)
       IN  /\ config_file' = st.file
           /\ perms' = [perms EXCEPT !.file = store_mode(config_file, @, st.ok, faults)]
           /\ IF store_ctx = "migration"
              THEN IF CleanupAfterStore(st.ok)
                   THEN /\ home' = cleanup_legacy_tokens(legacy_tokens, home)
                        /\ migStored' = st.ok
                        /\ result' = ReturnToken(selected_token)
                        /\ pc' = "idle"
                        /\ UNCHANGED setup_ctx
                   ELSE /\ pc' = "setup_prompt" /\ setup_ctx' = "migration_try"
                        /\ UNCHANGED <<home, migStored, result>>
              ELSE IF st.ok
                   THEN /\ result' = ReturnToken(new_token)
                        /\ pc' = "idle"
                        /\ UNCHANGED <<home, migStored, setup_ctx>>
                   ELSE /\ pc' = "setup_input"
                        /\ UNCHANGED <<home, migStored, result, setup_ctx>>
    /\ UNCHANGED <<faults, procs, direct, prev, crypto, shell, clock, op, calls, vh>>
    /\ UNCHANGED <<token, legacy_tokens, midx, selected_token, new_token,
                   store_ctx, choice>>
    /\ UNCHANGED <<cfg0, home0, nMigPrompt, nSetupPrompt, nInput,
                   didDetect, storedOk>>

(***************************************************************************)
(* _setup_new_token                                                        *)
(***************************************************************************)
\* lines 554-557.  The ValueError of line 557 raised inside the try block of
\* _handle_migration is caught by its `except Exception` (line 490), whose
\* handler calls _setup_new_token again (line 493).
SetupPrompt(c) ==
    /\ pc = "setup_prompt"
    /\ choice' = c
    /\ nSetupPrompt' = nSetupPrompt + 1
    /\ IF Declined(c)
       THEN IF setup_ctx = "migration_try"
            THEN /\ setup_ctx' = "migration_except"
                 /\ UNCHANGED <<pc, result>>
            ELSE /\ result' = RaiseValueError
                 /\ pc' = "idle"
                 /\ UNCHANGED setup_ctx
       ELSE /\ pc' = "setup_input"
            /\ UNCHANGED <<result, setup_ctx>>
    /\ UNCHANGED <<env, op, calls, vh>>
    /\ UNCHANGED <<token, legacy_tokens, midx, selected_token, new_token, store_ctx>>
    /\ UNCHANGED <<cfg0, home0, nMigPrompt, nInput, didDetect,
                   storedOk, migStored>>

\* lines 581-589: one input of the loop
SetupInput(t) ==
    /\ pc = "setup_input"
    /\ nInput < MaxInputs
    /\ nInput' = nInput + 1
    /\ new_token' = t
    /\ IF InputRefused(t)
       THEN UNCHANGED <<pc, vh>>
       ELSE EnterValidate(t, DefaultMaxRetries, "setup_validated", nValidate)
    /\ UNCHANGED <<env, op, calls, result>>
    /\ UNCHANGED <<token, legacy_tokens, midx, selected_token, setup_ctx,
                   store_ctx, choice>>
    /\ UNCHANGED <<cfg0, home0, nMigPrompt, nSetupPrompt, didDetect,
                   storedOk, migStored>>

\* lines 590-595: a rejected token is asked again, an accepted one is stored
SetupValidated ==
    /\ pc = "setup_validated"
    /\ IF NewTokenAccepted(user_info)
       THEN /\ store_ctx' = "setup"
            /\ EnterValidate(new_token, DefaultMaxRetries, "store_validated", nValidate)
       ELSE /\ pc' = "setup_input"
            /\ UNCHANGED <<vh, store_ctx>>
    /\ UNCHANGED <<env, op, calls, result>>
    /\ UNCHANGED <<token, legacy_tokens, midx, selected_token, new_token,
                   setup_ctx, choice>>
    /\ UNCHANGED <<cfg0, home0, nMigPrompt, nSetupPrompt, nInput,
                   didDetect, storedOk, migStored>>

(***************************************************************************)
(* Specification                                                           *)
(***************************************************************************)
Next ==
    \/ CallGetSecureToken
    \/ GstValidated
    \/ Detect
    \/ \E c \in Choices : MigrationPrompt(c)
    \/ MigrationValidated
    \/ StoreValidated
    \/ \E c \in Choices : SetupPrompt(c)
    \/ \E t \in InputTokens : SetupInput(t)
    \/ SetupValidated
    \/ \E t \in Tokens, mr \in 0..MaxRetriesArg : CallValidateToken(t, mr)
    \/ ValidateDone
    \/ \E o \in Outcomes : ValidateAttempt(o)

Spec == Init /\ [][Next]_vars

(***************************************************************************)
(* Claims                                                                  *)
(***************************************************************************)
\* the token a _load_secure_token of file f yields in this process
StoredToken(f) == load_secure_token(f, crypto, ThisMachine, clock, {}).token
GST == op = "get_secure_token"

\* C1: when the credential file held a version "1.0" record that decrypts to
\* a token and the validation of that token returned an identity,
\* get_secure_token has returned exactly that token, after exactly one
\* _validate_token call, with no prompt shown and without legacy detection,
\* migration or setup having run.
C1_StoredTokenReturned ==
    (GST /\ StoredToken(cfg0) # NoToken /\ storedOk = "ok") =>
        /\ pc = "idle"
        /\ result = ReturnToken(StoredToken(cfg0))
        /\ nValidate = 1
        /\ nMigPrompt = 0 /\ nSetupPrompt = 0 /\ nInput = 0
        /\ ~didDetect /\ legacy_tokens = <<>>
        /\ setup_ctx = "none" /\ store_ctx = "none"
        /\ home = home0

C1_Witness ==
    /\ GST /\ pc = "idle" /\ storedOk = "ok"
    /\ cfg0 = Json(OldRecord(TokA, ThisMachine, CONFIG_VERSION))
    /\ result = ReturnToken(TokA)
    /\ tries = 2

\* C2: when the stored record decrypted to a token and its validation returned
\* no identity, the credential file is deleted before legacy detection starts,
\* legacy detection then runs, and the call raises only if the setup prompt
\* is declined later.
C2_FailedTokenRemoved ==
    (GST /\ StoredToken(cfg0) # NoToken /\ storedOk = "failed") =>
        /\ pc = "detect" => config_file = Absent /\ ~didDetect
        /\ pc # "detect" => didDetect
        /\ result.kind = "ValueError" => nSetupPrompt >= 1 /\ choice = "n"

C2_Witness ==
    /\ GST /\ pc = "detect" /\ storedOk = "failed"
    /\ cfg0.kind = "json" /\ config_file = Absent
    /\ allTransient /\ tries = DefaultMaxRetries

\* C3: with no credential file and no legacy token in any shell configuration
\* file, a declined setup prompt ends get_secure_token with ValueError, no
\* _validate_token call made and no credential file written.
C3_DeclinedSetupFails ==
    (/\ GST /\ cfg0 = Absent /\ detect_legacy_tokens(shell, home0) = <<>>
     /\ nSetupPrompt = 1 /\ choice = "n") =>
        /\ pc = "idle"
        /\ result = RaiseValueError
        /\ nValidate = 0
        /\ config_file = Absent
        /\ home = home0

C3_Witness ==
    /\ GST /\ cfg0 = Absent /\ home0 = HomeNoise
    /\ nSetupPrompt = 1 /\ choice = "n"
    /\ result = RaiseValueError

\* the ways a credential file can be invalid
Unparsable(f) == f.kind = "garbage"
VersionOk(f) ==
    f.kind = "json" /\ "version" \in DOMAIN f.data /\ f.data.version = CONFIG_VERSION
VersionMismatch(f) == f.kind = "json" /\ ~VersionOk(f)
MissingCipher(f) == VersionOk(f) /\ "encrypted_token" \notin DOMAIN f.data
Undecryptable(f) ==
    /\ VersionOk(f) /\ "encrypted_token" \in DOMAIN f.data
    /\ decrypt_token(f.data.encrypted_token, crypto, ThisMachine) = NoToken
InvalidRecord(f) ==
    Unparsable(f) \/ VersionMismatch(f) \/ MissingCipher(f) \/ Undecryptable(f)

\* the file is as the call found it, or holds what a store_token_securely that
\* ended the call wrote for the returned token: nothing of its former content
WrittenOnlyByStore ==
    \/ config_file = cfg0
    \/ /\ pc = "idle" /\ result.kind = "token"
       /\ config_file = StoredRecord(result.token, user_info, crypto, ThisMachine, clock)

\* C4: an unparsable record, a record of another version and a record whose
\* ciphertext does not decrypt are handled by get_secure_token as an absent
\* file is: no exception but the ValueError of a declined setup, no token
\* loaded, the stored token never validated, legacy detection as the first
\* step after the load, and a result that owes nothing to the old content.
C4_InvalidRecordLikeAbsent ==
    (GST /\ (cfg0 = Absent \/ Unparsable(cfg0) \/ VersionMismatch(cfg0)
                \/ Undecryptable(cfg0))) =>
        /\ token = NoToken /\ storedOk = "none"
        /\ result.kind \in {"pending", "token", "ValueError"}
        /\ result.kind = "ValueError" => choice = "n" /\ nSetupPrompt >= 1
        /\ ~didDetect => pc = "detect" /\ nValidate = 0
        /\ didDetect => pc # "gst_validated" /\ vret # "gst_validated"
        /\ result.kind = "token" => result.token \in {selected_token, new_token}
        /\ WrittenOnlyByStore

C4_Witness ==
    /\ GST /\ pc = "idle" /\ crypto
    /\ cfg0 = Json(OldRecord(TokA, ThisMachine, "2.0"))
    /\ result = ReturnToken(TokB) /\ migStored

C6_CleanupOnlyAfterStore ==
    GST =>
        /\ home # home0 =>
              /\ migStored
              /\ pc = "idle" /\ result = ReturnToken(selected_token)
              /\ StoredToken(config_file) = selected_token
              /\ selected_token # NoToken
        /\ ~migStored => home = home0

C6_Witness ==
    /\ GST /\ shell = "other" /\ home0 = HomeTwoShells
    /\ home # home0 /\ migStored /\ selected_token = TokB

\* C7: a step that answers the migration prompt with anything but yes changes
\* neither the credential file nor any shell configuration file, makes no
\* _validate_token call (none has been made for a legacy token before the
\* prompt either), and leaves get_secure_token at its own call of
\* _setup_new_token with nothing returned or raised.
C7_DeclinedMigrationTouchesNothing ==
    [][ (pc = "migration_prompt" /\ nMigPrompt' = nMigPrompt + 1 /\ choice' # "y") =>
            /\ config_file' = config_file
            /\ home' = home /\ home = home0
            /\ nValidate' = nValidate /\ tries' = tries
            /\ nValidate = (IF token = NoToken THEN 0 ELSE 1)
            /\ vtoken' = token
            /\ selected_token' = NoToken
            /\ pc' = "setup_prompt" /\ setup_ctx' = "get_secure_token"
            /\ result' = Pending ]_vars

C7_Witness ==
    /\ GST /\ pc = "setup_prompt" /\ setup_ctx = "get_secure_token"
    /\ nMigPrompt = 1 /\ choice = "n" /\ nSetupPrompt = 0
    /\ legacy_tokens # <<>> /\ nValidate = 1

\* a _validate_token call has returned and its frame is still in place
ValidateReturned == pc # "validate_attempt" /\ nValidate >= 1

\* C8: a _validate_token call with max_retries >= 1 and a token of length
\* >= 30 whose attempts all fail with a transient-classified error makes
\* exactly max_retries attempts and returns None; while it runs it has made
\* fewer than max_retries attempts; a direct call ends with a returned value.
C8_TransientRetryBoundary ==
    /\ (/\ nValidate >= 1 /\ Len(vtoken) >= MinTokenLen /\ max_retries >= 1
        /\ allTransient) =>
            /\ ValidateReturned => tries = max_retries /\ user_info = PyNone
            /\ pc = "validate_attempt" => tries < max_retries /\ tries = attempt
    /\ (op = "_validate_token" /\ pc = "idle") => result = ReturnInfo(user_info)

C8_Witness ==
    /\ op = "_validate_token" /\ pc = "idle" /\ result = ReturnInfo(PyNone)
    /\ vtoken = TokA /\ max_retries = MaxRetriesArg
    /\ allTransient /\ tries = MaxRetriesArg

\* the last attempt raised, and the call returned None on that attempt, with
\* no retry and no sleep after it
ReturnedOnFailure ==
    /\ ValidateReturned /\ user_info = PyNone
    /\ attempt = tries - 1 /\ Len(sleeps) = tries - 1

\* C9 as stated: a failure whose message contains an authentication keyword,
\* or no keyword at all, makes the call return None on that attempt.
C9_Original ==
    (verr.raised /\ (IsAuth(verr.msg) \/ verr.msg = {})) => ReturnedOnFailure

\* C9, amended: a failure whose message contains no transient keyword (an
\* authentication keyword or no keyword at all) makes the call return None on
\* that attempt; a message with a transient keyword is handled as transient
\* even when it also contains an authentication keyword.
C9_NonTransientReturnsAtOnce ==
    /\ (verr.raised /\ ~IsTransient(verr.msg)) => ReturnedOnFailure
    /\ (verr.raised /\ IsTransient(verr.msg) /\ tries < max_retries) =>
            pc = "validate_attempt" /\ attempt = tries /\ Len(sleeps) = tries

C9_Witness ==
    /\ verr.raised /\ IsAuth(verr.msg) /\ ~IsTransient(verr.msg)
    /\ ReturnedOnFailure /\ tries = 2

\* C10: a request is only ever made for a token of at least 30 characters; a
\* _validate_token call for a shorter token returns None with no attempt; a
\* shorter input in the setup loop is asked again with no _validate_token
\* call; a call for a token of exactly 30 characters goes to the request.
C10_NoRequestForShortToken ==
    [][ /\ tries' > tries => Len(vtoken) >= MinTokenLen
        /\ (nValidate' = nValidate + 1 /\ Len(vtoken') < MinTokenLen) =>
              pc' # "validate_attempt" /\ user_info' = PyNone /\ tries' = 0
        /\ (pc = "setup_input" /\ nInput' = nInput + 1
                /\ Len(new_token') < MinTokenLen) =>
              pc' = "setup_input" /\ nValidate' = nValidate /\ tries' = tries
        /\ (nValidate' = nValidate + 1 /\ Len(vtoken') = MinTokenLen
                /\ max_retries' >= 1) =>
              pc' = "validate_attempt" ]_vars

C10_Witness ==
    /\ GST /\ pc = "setup_validated" /\ new_token = TokA /\ vtoken = TokA
    /\ tries >= 1 /\ nInput = 2

\* C11 as stated: _validate_token returns an identity only when the reply
\* holds an identifier field that is present and not empty, and a reply that
\* is no identity ends the call with None on that attempt.
C11_Original ==
    /\ ~IsNone(user_info) => ("id" \in DOMAIN user_info /\ user_info.id # "")
    /\ (ValidateReturned /\ tries >= 1 /\ ~verr.raised /\ IsNone(user_info)) =>
            attempt = tries - 1 /\ Len(sleeps) = tries - 1

\* get_secure_token returns the stored token on a reply whose identifier is
\* the empty string
C11_Witness ==
    /\ GST /\ pc = "idle" /\ result = ReturnToken(TokA)
    /\ user_info = [id |-> ""] /\ storedOk = "ok"

(***************************************************************************)
(* Direct calls of _encrypt_token and _decrypt_token                       *)
(***************************************************************************)
MaxExtraLen == 2     \* tokens of up to MinTokenLen + MaxExtraLen characters

\* identifier tuples (machine, user, home): this process, the same user on
\* another machine, another user on this machine
Identifiers == {ThisMachine, OtherMachine, "hostA:bob:/home/bob"}

CryptoTokens ==
    {Rep(c, n) : c \in {"a", "b"}, n \in (MinTokenLen - 1)..(MinTokenLen + MaxExtraLen)}

\* the ciphertexts a process can be handed: those a build with the library
\* produced under some identifier tuple, and strings no _encrypt_token made
Ciphertexts ==
    {[token |-> t, made_by |-> id, build |-> TRUE, ct |-> encrypt_token(t, TRUE, id)] :
        t \in CryptoTokens, id \in Identifiers}
    \cup {[token |-> NoToken, made_by |-> "none", build |-> TRUE, ct |-> c] :
            c \in {JunkCipher, EmptyCipher}}

\* every variable but crypto and direct is at rest in CryptoSpec
AtRest ==
    /\ shell = "bash" /\ home = HomeEmpty /\ config_file = Absent
    /\ faults = {} /\ prev = NoPrev
    /\ InitFrames

CryptoInit ==
    /\ crypto \in BOOLEAN
    /\ direct = NoCall
    /\ AtRest

\* _encrypt_token(t) in a process whose identifier tuple is id
CallEncryptToken(t, id) ==
    /\ direct' = [fn |-> "_encrypt_token", token |-> t, made_by |-> id,
                  build |-> crypto, identifier |-> id, ct |-> EmptyCipher,
                  ret |-> encrypt_token(t, crypto, id)]
    /\ UNCHANGED <<crypto, shell, config_file, home, clock, faults, perms, procs,
                   prev>>
    /\ UNCHANGED <<ctl, vfr, gfr, result, hist>>

\* _decrypt_token of the ciphertext the preceding _encrypt_token returned, in
\* the same build, by a process whose identifier tuple is id
CallDecryptOwn(id) ==
    /\ direct.fn = "_encrypt_token" /\ direct.ret # NameError
    /\ direct' = [fn |-> "_decrypt_token", token |-> direct.token,
                  made_by |-> direct.made_by, build |-> direct.build,
                  identifier |-> id, ct |-> direct.ret,
                  ret |-> decrypt_token(direct.ret, crypto, id)]
    /\ UNCHANGED <<crypto, shell, config_file, home, clock, faults, perms, procs,
                   prev>>
    /\ UNCHANGED <<ctl, vfr, gfr, result, hist>>

\* _decrypt_token(c.ct) of a ciphertext found on disk, by a process whose
\* identifier tuple is id
CallDecryptToken(c, id) ==
    /\ direct' = [fn |-> "_decrypt_token", token |-> c.token,
                  made_by |-> c.made_by, build |-> c.build,
                  identifier |-> id, ct |-> c.ct,
                  ret |-> decrypt_token(c.ct, crypto, id)]
    /\ UNCHANGED <<crypto, shell, config_file, home, clock, faults, perms, procs,
                   prev>>
    /\ UNCHANGED <<ctl, vfr, gfr, result, hist>>

CryptoNext ==
    \/ \E t \in CryptoTokens, id \in Identifiers : CallEncryptToken(t, id)
    \/ \E id \in Identifiers : CallDecryptOwn(id)
    \/ \E c \in Ciphertexts, id \in Identifiers : CallDecryptToken(c, id)

CryptoSpec == CryptoInit /\ [][CryptoNext]_vars

\* C12 as stated: for every token of at least 30 characters and every
\* identifier tuple, _encrypt_token returns a ciphertext and _decrypt_token of
\* that ciphertext, in the same build and under the same identifier tuple,
\* returns exactly the token.
C12_Original ==
    /\ (direct.fn = "_encrypt_token" /\ Len(direct.token) >= MinTokenLen) =>
            direct.ret # NameError
    /\ (/\ direct.fn = "_decrypt_token" /\ Len(direct.token) >= MinTokenLen
        /\ direct.build = crypto /\ direct.made_by = direct.identifier) =>
            direct.ret = direct.token

\* without the cryptography library _encrypt_token of a 30-character token
\* raises NameError
C12_Witness ==
    /\ ~crypto /\ direct.fn = "_encrypt_token" /\ direct.token = TokA
    /\ direct.ret = NameError

TwoCallInit ==
    /\ crypto \in BOOLEAN
    /\ \E sh \in {<<"bash", HomeEmpty>>, <<"bash", HomeOne>>} :
            shell = sh[1] /\ home = sh[2]
    /\ config_file \in InitConfigFiles
    /\ faults = {} /\ direct = NoCall /\ prev = NoPrev
    /\ InitFrames

FirstCall ==
    /\ calls = 0
    /\ get_secure_token_entry
    /\ UNCHANGED prev

\* the call that follows a finished get_secure_token; prev keeps what that
\* call found on disk, what it returned and whether it went past the stored
\* token
SecondCall ==
    /\ calls = 1 /\ op = "get_secure_token"
    /\ prev' = [calls |-> 1,
                result |-> result,
                stored |-> StoredToken(cfg0),
                storedOk |-> storedOk,
                entered |-> didDetect \/ nMigPrompt > 0 \/ nSetupPrompt > 0]
    /\ get_secure_token_entry

TwoCallNext ==
    \/ FirstCall
    \/ SecondCall
    \/ GstValidated
    \/ Detect
    \/ \E c \in Choices : MigrationPrompt(c)
    \/ MigrationValidated
    \/ StoreValidated
    \/ \E c \in Choices : SetupPrompt(c)
    \/ \E t \in InputTokens : SetupInput(t)
    \/ SetupValidated
    \/ \E o \in Outcomes : ValidateAttempt(o)

TwoCallSpec == TwoCallInit /\ [][TwoCallNext]_vars

\* C14: when the first call found a record that decrypts to a token and that
\* token validated in both calls, both calls return that same token, neither
\* call runs legacy detection, migration or setup, and the record on disk
\* after the second call decrypts to the token it held before the first (only
\* last_used differs from the record the first call left).
C14_TwoCallsSameToken ==
    (prev.calls = 1 /\ prev.stored # NoToken /\ prev.storedOk = "ok") =>
        /\ prev.result = ReturnToken(prev.stored) /\ ~prev.entered
        /\ token = prev.stored
        /\ storedOk # "failed" => vtoken = prev.stored /\ nValidate = 1
        /\ storedOk = "ok" =>
            /\ result = prev.result
            /\ pc = "idle"
            /\ ~didDetect /\ nMigPrompt = 0 /\ nSetupPrompt = 0 /\ nInput = 0
            /\ StoredToken(config_file) = prev.stored
            /\ config_file = Json(SetLastUsed(cfg0.data, clock))
            /\ home = home0

C14_Witness ==
    /\ prev.calls = 1 /\ prev.result = ReturnToken(TokA) /\ prev.storedOk = "ok"
    /\ calls = 2 /\ pc = "idle" /\ storedOk = "ok" /\ result = ReturnToken(TokA)
    /\ clock = 2 /\ config_file.data.last_used = 2

(***************************************************************************)
(* Direct calls of _load_secure_token                                      *)
(***************************************************************************)
\* the five fields store_token_securely writes (lines 169-175)
SchemaFields == {"version", "encrypted_token", "created_at", "last_used", "user_name"}

\* the record d without its field k
Drop(d, k) == [x \in DOMAIN d \ {k} |-> d[x]]

\* credential files a _load_secure_token call can find: complete records, and
\* records with one schema field missing
LoadFiles ==
    {Absent, Garbage}
    \cup {Json(OldRecord(t, id, ver)) :
            t \in {TokS, TokA, TokB}, id \in {ThisMachine, OtherMachine},
            ver \in {CONFIG_VERSION, "2.0"}}
    \cup {Json(Drop(OldRecord(t, id, ver), k)) :
            t \in {TokS, TokA, TokB}, id \in {ThisMachine, OtherMachine},
            ver \in {CONFIG_VERSION, "2.0"}, k \in SchemaFields}

LoadInit ==
    /\ crypto \in BOOLEAN
    /\ shell = "bash" /\ home = HomeEmpty
    /\ config_file \in LoadFiles
    /\ faults = {} /\ direct = NoCall /\ prev = NoPrev
    /\ InitFrames

\* _load_secure_token(): direct keeps the file found and the value returned
CallLoadSecureToken ==
    /\ direct = NoCall
    /\ clock' = clock + 1
    /\ LET ld == load_secure_token(config_file, crypto, ThisMachine, clock + 1, faults)
       IN  /\ config_file' = ld.file
           /\ direct' = [fn |-> "_load_secure_token", found |-> config_file,
                         ret |-> ld.token]
    /\ UNCHANGED <<crypto, shell, home, faults, perms, procs, prev>>
    /\ UNCHANGED <<ctl, vfr, gfr, result, hist>>

LoadNext == CallLoadSecureToken

LoadSpec == LoadInit /\ [][LoadNext]_vars

\* C15 as stated: a record in which one of the five schema fields is missing
\* yields no token from _load_secure_token.
C15_Original ==
    (/\ direct.fn = "_load_secure_token" /\ direct.found.kind = "json"
     /\ \E k \in SchemaFields : k \notin DOMAIN direct.found.data) =>
        direct.ret = NoToken

\* a record without user_name is loaded, and the write-back keeps it without
\* that field
C15_Witness ==
    /\ crypto /\ direct.fn = "_load_secure_token"
    /\ direct.found = Json(Drop(OldRecord(TokA, ThisMachine, CONFIG_VERSION), "user_name"))
    /\ direct.ret = TokA
    /\ "user_name" \notin DOMAIN config_file.data

(***************************************************************************)
(* Construction and get_secure_token on a filesystem that fails            *)
(***************************************************************************)
\* the operations that can be made to raise OSError: the mkdir of the config
\* directory, and open-for-read, open-for-write and unlink of config.json
FaultOps == {"mkdir", "read", "write", "unlink"}

\* mutant: the `raise` of line 224 left out
ensure_config_directory_Swallowed(fl) == "ok"
\* _ensure_config_directory: logs the exception and re-raises it
ensure_config_directory(fl) == IF "mkdir" \in fl THEN "raise" ELSE "ok"

FaultInit ==
    /\ crypto \in BOOLEAN
    /\ \E sh \in {<<"bash", HomeEmpty>>, <<"bash", HomeOne>>} :
            shell = sh[1] /\ home = sh[2]
    /\ config_file \in {Absent, Garbage,
                        Json(OldRecord(TokA, ThisMachine, CONFIG_VERSION)),
                        Json(OldRecord(TokA, OtherMachine, CONFIG_VERSION))}
    /\ faults \in SUBSET FaultOps
    /\ direct = NoCall /\ prev = NoPrev
    /\ InitFrames

\* SecureTokenManager(): __init__ calls _ensure_config_directory outside any
\* try block, so what that raises leaves the constructor
Construct ==
    /\ direct = NoCall /\ pc = "idle" /\ calls = 0
    /\ direct' = [fn |-> "__init__",
                  raised |-> ensure_config_directory(faults) = "raise"]
    /\ perms' = IF ensure_config_directory(faults) = "raise" THEN perms
                ELSE [perms EXCEPT !.dir = DirMode]
    /\ UNCHANGED <<crypto, shell, config_file, home, clock, faults, procs, prev>>
    /\ UNCHANGED <<ctl, vfr, gfr, result, hist>>

\* get_secure_token() on the manager that was constructed
CallOnConstructed ==
    /\ direct.fn = "__init__" /\ ~direct.raised
    /\ calls = 0
    /\ get_secure_token_entry
    /\ UNCHANGED prev

FaultNext ==
    \/ Construct
    \/ CallOnConstructed
    \/ GstValidated
    \/ Detect
    \/ \E c \in Choices : MigrationPrompt(c)
    \/ MigrationValidated
    \/ StoreValidated
    \/ \E c \in Choices : SetupPrompt(c)
    \/ \E t \in InputTokens : SetupInput(t)
    \/ SetupValidated
    \/ \E o \in Outcomes : ValidateAttempt(o)

FaultSpec == FaultInit /\ [][FaultNext]_vars

\* C16 as stated: neither the constructor nor get_secure_token raises a
\* storage or crypto error; get_secure_token raises ValueError at most.
C16_Original ==
    /\ direct.fn = "__init__" => ~direct.raised
    /\ GST => result.kind \in {"pending", "token", "ValueError"}

\* C16, amended: get_secure_token raises nothing but the ValueError of a
\* declined setup when config.json cannot be read, written or deleted or when
\* encryption or decryption fails (a failed read or write-back yields no
\* stored token, a failed write stores nothing so that no token is returned,
\* a failed unlink leaves the file); the constructor re-raises the error of a
\* config directory that cannot be created.
C16_OnlyConstructorPropagates ==
    /\ direct.fn = "__init__" => (direct.raised <=> "mkdir" \in faults)
    /\ GST =>
          /\ "mkdir" \notin faults
          /\ result.kind \in {"pending", "token", "ValueError"}
          /\ result.kind = "ValueError" => choice = "n" /\ nSetupPrompt >= 1
          /\ ("read" \in faults \/ "write" \in faults) =>
                token = NoToken /\ storedOk = "none"
          /\ "write" \in faults => result.kind # "token" /\ config_file = cfg0
          /\ "unlink" \in faults => config_file # Absent \/ cfg0 = Absent
          /\ ~crypto => result.kind # "token"

C16_Witness ==
    /\ GST /\ faults = {"read", "write", "unlink"} /\ crypto
    /\ cfg0 = Json(OldRecord(TokA, ThisMachine, CONFIG_VERSION))
    /\ pc = "setup_input" /\ store_ctx = "setup" /\ nInput = MaxInputs
    /\ new_token = TokB /\ Truthy(user_info) /\ config_file = cfg0

(***************************************************************************)
(* diagnose_token                                                          *)
(***************************************************************************)
\* tokens of 30 characters with two, one and three '|' separators
Piped(k) == [i \in 1..MinTokenLen |-> IF i \in 2..(k + 1) THEN "|" ELSE "p"]
DiagArgs == {NoToken, TokS, TokA, Piped(2), Piped(1), Piped(3)}

\* len(test_token.split('|'))
Parts(tok) == 1 + Cardinality({i \in 1..Len(tok) : tok[i] = "|"})

\* mutant: an unusual segment count ends the run
DiagShapeRejects_Segments(tok) == Len(tok) < MinTokenLen \/ Parts(tok) # 3
\* diagnose_token, line 888: the token is too short to go on
DiagShapeRejects(tok) == Len(tok) < MinTokenLen

ReturnBool(b) ==
    [kind |-> IF b THEN "True" ELSE "False", token |-> NoToken, info |-> PyNone]

DiagOrder == <<"dns", "https", "shape", "validate">>

DiagInit ==
    /\ crypto \in BOOLEAN
    /\ shell = "bash" /\ home = HomeEmpty
    /\ config_file \in {Absent, Garbage,
                        Json(OldRecord(TokA, ThisMachine, CONFIG_VERSION)),
                        Json(OldRecord(TokS, ThisMachine, CONFIG_VERSION)),
                        Json(OldRecord(TokA, OtherMachine, CONFIG_VERSION))}
    /\ faults = {} /\ direct = NoCall /\ prev = NoPrev
    /\ InitFrames

\* diagnose_token(arg): lines 854-856
CallDiagnoseToken(arg) ==
    /\ pc = "idle" /\ calls = 0
    /\ op' = "diagnose_token" /\ calls' = calls + 1 /\ clock' = clock + 1
    /\ pc' = "diag_dns"
    /\ direct' = [fn |-> "diagnose_token", arg |-> arg, steps |-> <<>>,
                  dns |-> "none", https |-> "none", test_token |-> NoToken]
    /\ UNCHANGED <<crypto, shell, config_file, home, faults, perms, procs, prev>>
    /\ UNCHANGED <<vfr, gfr, result, hist>>

\* Test 1, lines 858-865: socket.gethostbyname
DiagDns(ok) ==
    /\ pc = "diag_dns"
    /\ direct' = [direct EXCEPT !.steps = Append(@, "dns"),
                                !.dns = IF ok THEN "ok" ELSE "failed"]
    /\ IF ok
       THEN pc' = "diag_https" /\ UNCHANGED result
       ELSE pc' = "idle" /\ result' = ReturnBool(FALSE)
    /\ UNCHANGED <<crypto, shell, config_file, home, clock, faults, perms, procs,
                   prev>>
    /\ UNCHANGED <<op, calls, vfr, gfr, hist>>

\* Test 2, lines 867-875: requests.get of the base URL
DiagHttps(ok) ==
    /\ pc = "diag_https"
    /\ direct' = [direct EXCEPT !.steps = Append(@, "https"),
                                !.https = IF ok THEN "ok" ELSE "failed"]
    /\ IF ok
       THEN pc' = "diag_shape" /\ UNCHANGED result
       ELSE pc' = "idle" /\ result' = ReturnBool(FALSE)
    /\ UNCHANGED <<crypto, shell, config_file, home, clock, faults, perms, procs,
                   prev>>
    /\ UNCHANGED <<op, calls, vfr, gfr, hist>>

\* Test 3, lines 877-901, and the entry of Test 4, line 905: the stored token
\* is loaded when no token was passed; a token that goes on is validated with
\* max_retries = 1 in diagnose mode, where the request made directly (lines
\* 677-699, reply o) returns its identity at once and anything else goes on
\* to the attempt proper.
DiagShape(o) ==
    /\ pc = "diag_shape"
    /\ LET ld == IF direct.arg # NoToken
                 THEN [token |-> direct.arg, file |-> config_file]
                 ELSE load_secure_token(config_file, crypto, ThisMachine, clock, faults)
           test_token == ld.token
       IN  /\ config_file' = ld.file
           /\ direct' = [direct EXCEPT
                            !.steps = IF test_token = NoToken \/ DiagShapeRejects(test_token)
                                      THEN Append(@, "shape")
                                      ELSE Append(Append(@, "shape"), "validate"),
                            !.test_token = test_token]
           /\ IF test_token = NoToken \/ DiagShapeRejects(test_token)
              THEN /\ pc' = "idle" /\ result' = ReturnBool(FALSE)
                   /\ UNCHANGED vh
              ELSE /\ UNCHANGED result
                   /\ IF o.kind = "response" /\ HasIdentity(o.info)
                      THEN /\ vtoken' = test_token /\ max_retries' = 1 /\ attempt' = 0
                           /\ sleeps' = <<>> /\ verr' = NoErr /\ user_info' = o.info
                           /\ nValidate' = 1 /\ tries' = 0 /\ allTransient' = FALSE
                           /\ pc' = "diag_validated" /\ vret' = "none"
                      ELSE EnterValidate(test_token, 1, "diag_validated", 0)
    /\ UNCHANGED <<crypto, shell, home, clock, faults, perms, procs, prev>>
    /\ UNCHANGED <<op, calls, gfr>>
    /\ UNCHANGED <<cfg0, home0, nMigPrompt, nSetupPrompt, nInput, didDetect,
                   storedOk, migStored>>

\* lines 907-916
DiagValidated ==
    /\ pc = "diag_validated"
    /\ pc' = "idle"
    /\ result' = ReturnBool(Truthy(user_info))
    /\ UNCHANGED <<env, op, calls, vfr, gfr, hist>>

DiagNext ==
    \/ \E arg \in DiagArgs : CallDiagnoseToken(arg)
    \/ \E ok \in BOOLEAN : DiagDns(ok)
    \/ \E ok \in BOOLEAN : DiagHttps(ok)
    \/ \E o \in Outcomes : DiagShape(o)
    \/ \E o \in Outcomes : ValidateAttempt(o)
    \/ DiagValidated

DiagSpec == DiagInit /\ [][DiagNext]_vars

\* the checks diagnose_token ran are the first n of the fixed order
RanFirst(n) == direct.steps = SubSeq(DiagOrder, 1, n)
DiagFalse == pc = "idle" /\ result = ReturnBool(FALSE)

\* C17: diagnose_token runs name resolution, HTTPS reachability, token shape
\* and full validation in that order; a failed name resolution, a failed HTTPS
\* request, a missing token and a token shorter than 30 characters each end
\* the run with False before any later check (no _validate_token call); a
\* token of 30 characters goes on to validation whatever its segment count;
\* the run returns True exactly when the final validation returned an
\* identity.
C17_DiagnoseOrder ==
    direct.fn = "diagnose_token" =>
        /\ \E n \in 0..4 : RanFirst(n)
        /\ direct.dns = "failed" => DiagFalse /\ RanFirst(1) /\ nValidate = 0
        /\ direct.https = "failed" => DiagFalse /\ RanFirst(2) /\ nValidate = 0
        /\ (Len(direct.steps) >= 3 /\ Len(direct.test_token) < MinTokenLen) =>
                DiagFalse /\ RanFirst(3) /\ nValidate = 0
        /\ (Len(direct.steps) >= 3 /\ Len(direct.test_token) >= MinTokenLen) =>
                RanFirst(4) /\ nValidate = 1 /\ vtoken = direct.test_token
                /\ max_retries = 1
        /\ pc = "idle" =>
                /\ result.kind \in {"True", "False"}
                /\ result = ReturnBool(TRUE) <=> (RanFirst(4) /\ HasIdentity(user_info))
        /\ Len(direct.steps) < 4 => nValidate = 0 /\ tries = 0

C17_Witness ==
    /\ direct.fn = "diagnose_token" /\ direct.arg = Piped(1)
    /\ pc = "idle" /\ result = ReturnBool(TRUE) /\ tries = 1

\* the step that ends store_token_securely in the setup loop
SetupStoreStep == pc = "store_validated" /\ store_ctx = "setup"

\* C18 as stated: the iteration of the setup loop whose token passed the
\* validation of the loop persists that token and returns it.
C18_Original ==
    [][ SetupStoreStep =>
            /\ pc' = "idle" /\ result' = ReturnToken(new_token)
            /\ StoredToken(config_file') = new_token ]_vars

\* C18, amended: an iteration returns its token only when the token passed
\* the validation of the loop and store_token_securely, which validates the
\* token once more, then returned True; the token is then on disk.  A short
\* input, a failed validation and a failed store (second validation without
\* identity, or encryption raising) each lead to the next prompt with the
\* credential file as it was; what the loop returns is the token entered
\* last, and the validation made for it last returned an identity.
C18_SetupLoopsUntilStored ==
    [][ /\ SetupStoreStep =>
              IF HasIdentity(user_info) /\ crypto
              THEN /\ pc' = "idle" /\ result' = ReturnToken(new_token)
                   /\ StoredToken(config_file') = new_token
              ELSE /\ pc' = "setup_input" /\ result' = Pending
                   /\ config_file' = config_file
        /\ (pc = "setup_input" /\ nInput' = nInput + 1 /\ Len(new_token') < MinTokenLen) =>
              pc' = "setup_input" /\ result' = Pending /\ config_file' = config_file
        /\ (pc = "setup_validated" /\ ~HasIdentity(user_info)) =>
              pc' = "setup_input" /\ result' = Pending /\ config_file' = config_file
        /\ (pc = "setup_validated" /\ HasIdentity(user_info)) =>
              vtoken' = new_token /\ nValidate' = nValidate + 1 /\ store_ctx' = "setup"
        /\ (pc # "idle" /\ pc' = "idle" /\ result'.kind = "token" /\ new_token # NoToken) =>
              /\ SetupStoreStep
              /\ result'.token = new_token /\ vtoken = new_token
              /\ Len(new_token) >= MinTokenLen
              /\ nValidate >= 2 /\ tries >= 1 ]_vars

C18_Witness ==
    /\ GST /\ pc = "idle" /\ store_ctx = "setup"
    /\ result = ReturnToken(TokB) /\ StoredToken(config_file) = TokB
    /\ nInput = 2 /\ cfg0 = Absent

\* _validate_token calls of this get_secure_token call made before migration
BeforeMigration == IF token = NoToken THEN 0 ELSE 1

\* C19: after a confirmed migration the legacy tokens are validated in the
\* order _detect_legacy_tokens found them across the configured files; the
\* first whose validation returns an identity is the selected token, the only
\* one store_token_securely is called for and the only one migration returns,
\* and no legacy token after it is validated; when none validates the setup
\* flow runs, with every shell configuration file and the credential file as
\* the migration found them.
C19_FirstValidLegacyToken ==
    /\ [](GST =>
            /\ selected_token # NoToken =>
                  /\ selected_token = legacy_tokens[midx].token
                  /\ nInput = 0 => /\ vtoken = selected_token
                                   /\ nValidate = BeforeMigration + midx + 1
            /\ store_ctx = "migration" => selected_token # NoToken
            /\ (nMigPrompt >= 1 /\ selected_token = NoToken) =>
                  /\ home = home0 /\ ~migStored
                  /\ store_ctx # "setup" => config_file \in {cfg0, Absent}
            /\ (setup_ctx \in {"migration_try", "migration_except"}
                    /\ selected_token = NoToken) =>
                  midx = Len(legacy_tokens)
            /\ migStored => result = ReturnToken(selected_token))
    /\ [][ /\ (pc = "migration_prompt" /\ ~Declined(choice')) =>
                 /\ legacy_tokens = detect_legacy_tokens(shell, home0)
                 /\ midx' = 1 /\ vtoken' = legacy_tokens[1].token
                 /\ selected_token' = NoToken
           /\ pc = "migration_validated" =>
                 /\ vtoken = legacy_tokens[midx].token
                 /\ nValidate = BeforeMigration + midx
                 /\ IF HasIdentity(user_info)
                    THEN /\ selected_token' = legacy_tokens[midx].token
                         /\ midx' = midx /\ vtoken' = selected_token'
                         /\ store_ctx' = "migration"
                    ELSE IF midx < Len(legacy_tokens)
                    THEN /\ midx' = midx + 1
                         /\ vtoken' = legacy_tokens[midx + 1].token
                         /\ selected_token' = NoToken
                    ELSE /\ pc' = "setup_prompt" /\ selected_token' = NoToken
                         /\ home' = home /\ config_file' = config_file ]_vars

C19_Witness ==
    /\ GST /\ shell = "other" /\ home0 = HomeTwoShells
    /\ legacy_tokens = <<[file |-> ".zshrc", token |-> TokC],
                         [file |-> ".bashrc", token |-> TokB]>>
    /\ midx = 2 /\ selected_token = TokB /\ migStored
    /\ result = ReturnToken(TokB)

(***************************************************************************)
(* Direct calls of _cleanup_legacy_tokens                                  *)
(***************************************************************************)
MaxLines == 4        \* lines of the shell configuration file rewritten

\* the lines a shell configuration file is made of: the sentinel, an export
\* of a token, an export of a value too short to be one, any other text
LineKinds == {Sentinel, Export(TokB), Export(Quoted(DQ, TokS)), Text(<<"x">>)}
LineSeqs == UNION {[1..n -> LineKinds] : n \in 0..MaxLines}

CleanupInit ==
    /\ crypto = TRUE
    /\ shell = "bash"
    /\ \E ls \in LineSeqs :
            home = Layout(NoFile, File(ls), File(<<Text(<<"y">>), Sentinel>>))
    /\ config_file = Absent
    /\ faults = {} /\ direct = NoCall /\ prev = NoPrev
    /\ InitFrames

\* _cleanup_legacy_tokens(legacy_tokens) for the list _detect_legacy_tokens
\* returned, as _handle_migration calls it (line 476)
CallCleanupLegacyTokens ==
    /\ direct = NoCall
    /\ detect_legacy_tokens(shell, home) # <<>>
    /\ home' = cleanup_legacy_tokens(detect_legacy_tokens(shell, home), home)
    /\ direct' = [fn |-> "_cleanup_legacy_tokens",
                  legacy |-> detect_legacy_tokens(shell, home)]
    /\ UNCHANGED <<crypto, shell, config_file, clock, faults, perms, procs, prev>>
    /\ UNCHANGED <<ctl, vfr, gfr, result, hist>>

CleanupNext == CallCleanupLegacyTokens

CleanupSpec == CleanupInit /\ [][CleanupNext]_vars

\* the files named in the list a cleanup was called with
CleanedFiles == {direct.legacy[i].file : i \in 1..Len(direct.legacy)}

\* lines without the positions in gone, in their order
Without(lines, gone) ==
    LET kept == (1..Len(lines)) \ gone
        at(k) == CHOOSE i \in kept : Cardinality({j \in kept : j <= i}) = k
    IN  [k \in 1..Cardinality(kept) |-> lines[at(k)]]

\* positions of the first sentinel line that an export line follows, and of
\* that export line
FirstPair(lines) ==
    LET starts == {i \in 1..(Len(lines) - 1) :
                      lines[i].kind = "sentinel" /\ lines[i + 1].kind = "export"}
    IN  IF starts = {} THEN {}
        ELSE LET i == CHOOSE s \in starts : \A u \in starts : s <= u
             IN  {i, i + 1}

\* positions of every sentinel line and of every export line right after one
AllEntries(lines) ==
    {i \in 1..Len(lines) :
        \/ lines[i].kind = "sentinel"
        \/ lines[i].kind = "export" /\ i > 1 /\ lines[i - 1].kind = "sentinel"}

\* C20 as stated: each discovered file is rewritten without the first
\* sentinel line that an export line follows and without that export line,
\* every other line kept in its order.
C20_Original ==
    direct.fn = "_cleanup_legacy_tokens" =>
        \A f \in CleanedFiles :
            home[f].lines = Without(home0[f].lines, FirstPair(home0[f].lines))

\* C20, amended: each discovered file is rewritten without any of its
\* sentinel lines and without the export line that directly follows a
\* sentinel line; every other line is kept, in its order; a file that was not
\* discovered is not touched; no legacy token is detected afterwards.
C20_EverySentinelEntryRemoved ==
    direct.fn = "_cleanup_legacy_tokens" =>
        /\ \A f \in CleanedFiles :
              home[f].lines = Without(home0[f].lines, AllEntries(home0[f].lines))
        /\ \A f \in ShellFiles \ CleanedFiles : home[f] = home0[f]
        /\ detect_legacy_tokens(shell, home) = <<>>

C20_Witness ==
    /\ direct.fn = "_cleanup_legacy_tokens"
    /\ home0[".bashrc"].lines = <<Sentinel, Text(<<"x">>), Sentinel, Export(TokB)>>
    /\ home[".bashrc"].lines = <<Text(<<"x">>)>>
    /\ home[".bash_profile"] = home0[".bash_profile"]

(***************************************************************************)
(* Direct calls of _detect_legacy_tokens                                   *)
(***************************************************************************)
\* lines of the file scanned: the sentinel, exports of a 30-character value
\* (bare and double-quoted), of a single-quoted 31-character value and of a
\* double-quoted 29-character value, any other text
DetectLines ==
    {Sentinel, Export(TokA), Export(Quoted(DQ, TokA)), Export(Quoted(SQ, TokB)),
     Export(Quoted(DQ, TokS)), Text(<<"x">>)}
DetectSeqs == UNION {[1..n -> DetectLines] : n \in 0..MaxLines}

DetectInit ==
    /\ crypto = TRUE
    /\ shell \in {"bash", "other"}
    /\ \E ls \in DetectSeqs :
            home = Layout(File(<<Sentinel, Export(Quoted(DQ, TokC))>>), File(ls), NoFile)
    /\ config_file = Absent
    /\ faults = {} /\ direct = NoCall /\ prev = NoPrev
    /\ InitFrames

\* _detect_legacy_tokens()
CallDetectLegacyTokens ==
    /\ direct = NoCall
    /\ direct' = [fn |-> "_detect_legacy_tokens",
                  ret |-> detect_legacy_tokens(shell, home)]
    /\ UNCHANGED <<crypto, shell, config_file, home, clock, faults, perms, procs,
                   prev>>
    /\ UNCHANGED <<ctl, vfr, gfr, result, hist>>

DetectNext == CallDetectLegacyTokens

DetectSpec == DetectInit /\ [][DetectNext]_vars

\* the value v without one pair of surrounding single or double quotes
Unquoted(v) ==
    IF Len(v) >= 2 /\ v[1] = v[Len(v)] /\ v[1] \in {DQ, SQ}
    THEN SubSeq(v, 2, Len(v) - 1)
    ELSE v

\* the positions of lines where the sentinel is directly followed by an
\* export whose unquoted value has at least least characters
Matches(lines, least) ==
    {i \in 1..(Len(lines) - 1) :
        /\ lines[i].kind = "sentinel" /\ lines[i + 1].kind = "export"
        /\ Len(Unquoted(lines[i + 1].value)) >= least}

\* what detection is to return for the configured files fs, by the rule that
\* a value of at least least characters is a token: one entry per file that
\* has a match, holding the unquoted value of its first match, in file order
Expected(files, fs, least) ==
    LET hit(f) == fs[f].exists /\ Matches(fs[f].lines, least) # {}
        first(f) == CHOOSE i \in Matches(fs[f].lines, least) :
                        \A j \in Matches(fs[f].lines, least) : i <= j
        entry(f) == [file |-> f, token |-> Unquoted(fs[f].lines[first(f) + 1].value)]
        hits == {k \in 1..Len(files) : hit(files[k])}
        at(n) == CHOOSE k \in hits : Cardinality({j \in hits : j <= k}) = n
    IN  [n \in 1..Cardinality(hits) |-> entry(files[at(n)])]

\* C21 as stated: detection yields, per configured file, the unquoted value of
\* the first export line that directly follows a sentinel line and whose
\* unquoted value has length >= 30, and nothing else.
C21_Original ==
    direct.fn = "_detect_legacy_tokens" =>
        direct.ret = Expected(get_shell_config_files(shell), home, MinTokenLen)

\* a sentinel line followed by the export of a quoted 30-character value is
\* not detected
C21_Witness ==
    /\ direct.fn = "_detect_legacy_tokens" /\ shell = "bash"
    /\ home[".bashrc"].lines = <<Sentinel, Export(Quoted(DQ, TokA))>>
    /\ direct.ret = <<>>

StoreFaults == {"write", "chmod"}

StoreInit ==
    /\ crypto \in BOOLEAN
    /\ shell = "bash" /\ home = HomeEmpty
    /\ \/ /\ config_file = Absent
          /\ \E d \in {NoMode, DirCreateMode, DirMode} :
                perms = [dir |-> d, file |-> NoMode]
       \/ /\ config_file = Json(OldRecord(TokC, ThisMachine, CONFIG_VERSION))
          /\ perms = SecurePerms(config_file)
    /\ faults \in SUBSET StoreFaults
    /\ procs = NoProcs /\ direct = NoCall /\ prev = NoPrev
    /\ InitCall

\* store_token_securely(tok) on the manager that was constructed: line 163
CallStoreTokenSecurely(tok) ==
    /\ direct.fn = "__init__" /\ ~direct.raised
    /\ pc = "idle" /\ calls < MaxCalls
    /\ op' = "store_token_securely" /\ calls' = calls + 1 /\ clock' = clock + 1
    /\ result' = Pending
    /\ cfg0' = config_file /\ home0' = home
    /\ EnterValidate(tok, DefaultMaxRetries, "sts_validated", 0)
    /\ UNCHANGED <<crypto, shell, config_file, home, faults, perms, procs, direct,
                   prev, gfr>>
    /\ UNCHANGED <<nMigPrompt, nSetupPrompt, nInput, didDetect, storedOk, migStored>>

\* lines 164-178: the test of the identity, the encryption, and the open()
\* and json.dump() of the record
StsValidated ==
    /\ pc = "sts_validated"
    /\ LET st == store_write(config_file, vtoken, user_info, crypto, ThisMachine,
                             clock, faults)
       IN  IF st.ok
           THEN /\ config_file' = st.file
                /\ perms' = [perms EXCEPT !.file = open_w(config_file, @)]
                /\ pc' = "sts_chmod"
                /\ UNCHANGED result
           ELSE /\ result' = ReturnBool(FALSE)
                /\ pc' = "idle"
                /\ UNCHANGED <<config_file, perms>>
    /\ UNCHANGED <<crypto, shell, home, clock, faults, procs, direct, prev>>
    /\ UNCHANGED <<op, calls, vfr, gfr, hist>>

\* lines 181-186: _set_secure_permissions, and the return of True
StsChmod ==
    /\ pc = "sts_chmod"
    /\ perms' = [perms EXCEPT !.file = set_secure_permissions(@, faults)]
    /\ result' = ReturnBool(TRUE)
    /\ pc' = "idle"
    /\ UNCHANGED <<crypto, shell, config_file, home, clock, faults, procs, direct,
                   prev>>
    /\ UNCHANGED <<op, calls, vfr, gfr, hist>>

\* _load_secure_token() after the store returned
CallLoadStored ==
    /\ pc = "idle" /\ op = "store_token_securely" /\ direct.fn = "__init__"
    /\ LET ld == load_secure_token(config_file, crypto, ThisMachine, clock + 1, faults)
       IN  /\ config_file' = ld.file
           /\ direct' = [fn |-> "_load_secure_token", raised |-> FALSE,
                         found |-> config_file, ret |-> ld.token]
    /\ clock' = clock + 1
    /\ UNCHANGED <<crypto, shell, home, faults, perms, procs, prev>>
    /\ UNCHANGED <<ctl, vfr, gfr, result, hist>>

StoreNext ==
    \/ Construct
    \/ \E t \in Tokens : CallStoreTokenSecurely(t)
    \/ \E o \in Outcomes : ValidateAttempt(o)
    \/ StsValidated
    \/ StsChmod
    \/ CallLoadStored

StoreSpec == StoreInit /\ [][StoreNext]_vars

\* the credential file holds a record
HoldsRecord == config_file # Absent /\ config_file # Garbage
\* file and directory are restricted to the owner
Restricted == perms.file = FileMode /\ perms.dir = DirMode
\* store_token_securely has returned b
StoreReturned(b) ==
    op = "store_token_securely" /\ pc = "idle" /\ result = ReturnBool(b)

\* C23 as stated: in every state in which the credential file exists holding
\* a record its mode is 0600 and the mode of its directory 0700, and
\* store_token_securely returns True only in such a state.
C23_Original ==
    /\ HoldsRecord => Restricted
    /\ StoreReturned(TRUE) => Restricted

\* store_token_securely has returned True for a new file whose chmod raised:
\* the file is left with the mode open() gave it
C23_Witness ==
    /\ StoreReturned(TRUE) /\ cfg0 = Absent /\ HoldsRecord
    /\ "chmod" \in faults /\ perms = [dir |-> DirMode, file |-> FileCreateMode]

(***************************************************************************)
(* Writes of the credential file, step by step: a process storing a token  *)
(* and a process loading one share the file, and either can be killed      *)
(***************************************************************************)
\* the keys of config_data in the order json.dump writes them
FieldOrder == <<"version", "encrypted_token", "created_at", "last_used", "user_name">>

\* mutant: an unfinished dump parses as the record of the keys written
Interrupted_Parsable(d, k) ==
    Json([f \in {FieldOrder[i] : i \in 1..k} \cap DOMAIN d |-> d[f]])
\* the file left by a dump of d that stopped after k keys, the closing brace
\* not written: json.load raises on it
Interrupted(d, k) ==
    [kind |-> "prefix",
     data |-> [f \in {FieldOrder[i] : i \in 1..k} \cap DOMAIN d |-> d[f]]]
\* the file open(..., 'w') leaves: truncated to nothing
Empty == [kind |-> "prefix", data |-> <<>>]

\* the file after a process that opened it dumps d from offset 0: its own text
\* when the file is still as it truncated it; when another process has written
\* since, its own text followed by what is left of a longer text, if any
write_over(cur, d) == IF cur = Empty THEN {Json(d)} ELSE {Json(d), Garbage}

\* the frame of a process that does not take part
NoProc == [pc |-> "absent", data |-> <<>>, ret |-> NoToken, wrote |-> FALSE]

RaceInit ==
    /\ crypto = TRUE
    /\ shell = "bash" /\ home = HomeEmpty
    /\ config_file \in {Absent, Json(OldRecord(TokA, ThisMachine, CONFIG_VERSION))}
    /\ perms = SecurePerms(config_file)
    /\ faults = {} /\ direct = NoCall /\ prev = NoPrev
    /\ \E ps \in {{"storer"}, {"loader"}, {"storer", "loader"}} :
          procs = [p \in {"storer", "loader"} |->
                     IF p \notin ps THEN NoProc
                     ELSE IF p = "loader" THEN [NoProc EXCEPT !.pc = "start"]
                     ELSE [NoProc EXCEPT !.pc = "start",
                              !.data = StoredRecord(TokB, Identity, crypto,
                                                    ThisMachine, 1).data]]
    /\ InitCall

\* the process p is not running
Quiet(p) == procs[p].pc \in {"absent", "done", "killed"}
\* what the steps of the two processes leave alone
RaceFrame == <<crypto, shell, home, clock, faults, direct, prev, ctl, vfr, gfr,
               result, hist>>

\* store_token_securely, line 177: open(self.config_file, 'w')
StoreOpen ==
    /\ procs["storer"].pc = "start"
    /\ config_file' = Empty
    /\ perms' = [perms EXCEPT !.file = open_w(config_file, @)]
    /\ procs' = [procs EXCEPT !["storer"].pc = "dump"]
    /\ UNCHANGED RaceFrame

\* store_token_securely, line 178: json.dump, and the close of the file
StoreDump ==
    /\ procs["storer"].pc = "dump"
    /\ \E c \in write_over(config_file, procs["storer"].data) :
          /\ config_file' = c
          /\ procs' = [procs EXCEPT !["storer"].pc = "chmod",
                                    !["storer"].wrote = (c # Garbage)]
    /\ UNCHANGED <<perms, RaceFrame>>

\* store_token_securely, lines 181-186
StoreChmod ==
    /\ procs["storer"].pc = "chmod"
    /\ perms' = [perms EXCEPT !.file = set_secure_permissions(@, faults)]
    /\ procs' = [procs EXCEPT !["storer"].pc = "done"]
    /\ UNCHANGED <<config_file, RaceFrame>>

\* _load_secure_token, lines 299-317: the read and the decryption
LoadRead ==
    /\ procs["loader"].pc = "start"
    /\ LET ld == load_secure_token(config_file, crypto, ThisMachine, 1, faults)
       IN  procs' = [procs EXCEPT
                        !["loader"].ret = ld.token,
                        !["loader"].pc = IF ld.token = NoToken THEN "done"
                                         ELSE "wb_open",
                        !["loader"].data = IF ld.token = NoToken THEN <<>>
                                           ELSE ld.file.data]
    /\ UNCHANGED <<config_file, perms, RaceFrame>>

\* _load_secure_token, line 320: open(self.config_file, 'w')
LoadWbOpen ==
    /\ procs["loader"].pc = "wb_open"
    /\ config_file' = Empty
    /\ procs' = [procs EXCEPT !["loader"].pc = "wb_dump"]
    /\ UNCHANGED <<perms, RaceFrame>>

\* _load_secure_token, lines 321-323: json.dump, close, return token
LoadWbDump ==
    /\ procs["loader"].pc = "wb_dump"
    /\ config_file' \in write_over(config_file, procs["loader"].data)
    /\ procs' = [procs EXCEPT !["loader"].pc = "done"]
    /\ UNCHANGED <<perms, RaceFrame>>

\* the process p is killed (or the machine stops): before its open() the file
\* is untouched; inside a dump any number of keys may have reached the file
Kill(p) ==
    /\ ~Quiet(p)
    /\ procs' = [procs EXCEPT ![p].pc = "killed"]
    /\ IF procs[p].pc \in {"dump", "wb_dump"}
       THEN \E k \in 0..Len(FieldOrder) :
               config_file' = IF config_file = Empty
                              THEN Interrupted(procs[p].data, k)
                              ELSE IF k = 0 THEN config_file ELSE Garbage
       ELSE UNCHANGED config_file
    /\ UNCHANGED <<perms, RaceFrame>>

\* a _load_secure_token call made after both processes have ended
LaterLoad ==
    /\ Quiet("storer") /\ Quiet("loader") /\ direct = NoCall
    /\ LET ld == load_secure_token(config_file, crypto, ThisMachine, 2, faults)
       IN  /\ config_file' = ld.file
           /\ direct' = [fn |-> "_load_secure_token", found |-> config_file,
                         ret |-> ld.token]
    /\ UNCHANGED <<crypto, shell, home, clock, faults, perms, procs, prev>>
    /\ UNCHANGED <<ctl, vfr, gfr, result, hist>>

RaceNext ==
    \/ StoreOpen
    \/ StoreDump
    \/ StoreChmod
    \/ LoadRead
    \/ LoadWbOpen
    \/ LoadWbDump
    \/ \E p \in {"storer", "loader"} : Kill(p)
    \/ LaterLoad

RaceSpec == RaceInit /\ [][RaceNext]_vars

\* the token the file held before either process ran, if any
OldToken == StoredToken(cfg0)
\* a process was killed
Interruption == \E p \in {"storer", "loader"} : procs[p].pc = "killed"

\* C24: whatever the point at which a write of the credential file (the dump
\* of store_token_securely or the last_used write-back) is interrupted, a
\* later _load_secure_token returns None, the token the file held before, or
\* the new token when its record was written completely; it returns the new
\* token only in that case, and None when the file is left unfinished.
C24_InterruptedWriteNeverYieldsOtherToken ==
    direct.fn = "_load_secure_token" =>
        /\ direct.ret = NoToken \/ direct.ret = OldToken \/ direct.ret = TokB
        /\ direct.ret = TokB => procs["storer"].wrote
        /\ direct.found.kind = "prefix" => direct.ret = NoToken

\* the storing process was killed inside its dump after the ciphertext had
\* reached the file, and the later load returns None where the file held a
\* token before
C24_Witness ==
    /\ direct.fn = "_load_secure_token" /\ direct.ret = NoToken
    /\ procs["storer"].pc = "killed" /\ procs["loader"].pc = "absent"
    /\ OldToken = TokA
    /\ direct.found.kind = "prefix"
    /\ "encrypted_token" \in DOMAIN direct.found.data

\* a store of TokB and a load have both run to their end on a file that held
\* the old token, and neither was killed
RaceOver ==
    /\ procs["storer"].pc = "done" /\ procs["loader"].pc = "done"
    /\ OldToken # NoToken

\* C25 as stated: after a store_token_securely of a new token by one process
\* has interleaved with a _load_secure_token of another, the file holds the
\* record written by the store, and the loading process has obtained the
\* complete old or the complete new token.
C25_Original ==
    RaceOver =>
        /\ config_file.kind = "json" /\ StoredToken(config_file) = TokB
        /\ procs["loader"].ret \in {OldToken, TokB}

\* lost update: the load read the old record before the store wrote, and its
\* write-back after it; the store has returned and the file holds the old token
C25_Witness ==
    /\ RaceOver /\ procs["storer"].wrote
    /\ procs["loader"].ret = OldToken
    /\ config_file.kind = "json" /\ StoredToken(config_file) = OldToken
    /\ OldToken # TokB

\* C26: a _load_secure_token call that returns a token leaves the record it
\* found with last_used set to the time of the call and every other field
\* (version, encrypted_token, created_at, user_name) as it was; a call that
\* returns None (file absent or unparsable, version mismatch, ciphertext
\* missing or not decryptable) leaves the file exactly as it found it.
C26_ReadUpdatesLastUsedOnly ==
    direct.fn = "_load_secure_token" =>
        IF direct.ret # NoToken
        THEN /\ direct.found.kind = "json" /\ config_file.kind = "json"
             /\ DOMAIN config_file.data = DOMAIN direct.found.data \cup {"last_used"}
             /\ config_file.data.last_used = clock
             /\ \A k \in DOMAIN direct.found.data \ {"last_used"} :
                    config_file.data[k] = direct.found.data[k]
        ELSE config_file = direct.found

\* a complete record was read: last_used moved from 0 to the time of the call
C26_Witness ==
    /\ direct.fn = "_load_secure_token" /\ direct.ret = TokB
    /\ direct.found = Json(OldRecord(TokB, ThisMachine, CONFIG_VERSION))
    /\ config_file.data.last_used = 1 /\ config_file.data.created_at = 0

\* the build without the cryptography library has validated the token passed
\* to store_token_securely, and no filesystem operation fails
DegradedStore ==
    /\ ~crypto /\ faults = {}
    /\ op = "store_token_securely" /\ pc = "idle" /\ Truthy(user_info)

\* C27 as stated: in the build without the cryptographic library,
\* store_token_securely of a validating token returns True and a following
\* _load_secure_token returns the same token.
C27_Original ==
    DegradedStore =>
        /\ result = ReturnBool(TRUE)
        /\ direct.fn = "_load_secure_token" => direct.ret = vtoken

\* without the library the store of a validated token has returned False, no
\* file was written, and the following load returns None
C27_Witness ==
    /\ DegradedStore /\ vtoken = TokB /\ user_info = Identity
    /\ result = ReturnBool(FALSE)
    /\ cfg0 = Absent /\ config_file = Absent
    /\ direct.fn = "_load_secure_token" /\ direct.ret = NoToken

\* get_secure_token has returned a token
GstReturnedToken == GST /\ pc = "idle" /\ result.kind = "token"

\* C28: whenever get_secure_token returns a token t, whether from the stored
\* record, from a migrated legacy token or from setup, the credential file
\* exists at that moment as a record of the current version that decrypts to
\* t, and a _validate_token call for t made during that get_secure_token call
\* has returned an identity after a request to the service.
C28_ReturnedTokenIsStoredAndValidated ==
    GstReturnedToken =>
        /\ result.token # NoToken
        /\ config_file.kind = "json"
        /\ "version" \in DOMAIN config_file.data
        /\ config_file.data.version = CONFIG_VERSION
        /\ StoredToken(config_file) = result.token
        /\ vtoken = result.token /\ Truthy(user_info)
        /\ nValidate >= 1 /\ tries >= 1

\* a token returned by each of the three paths: the stored record, a migrated
\* legacy token whose file was cleaned, a token entered in setup
C28_Witness ==
    /\ GstReturnedToken /\ StoredToken(config_file) = result.token
    /\ \/ storedOk = "ok" /\ cfg0 # Absent
       \/ migStored /\ cfg0 = Absent /\ home # home0
       \/ nInput >= 1 /\ cfg0 = Absent /\ result.token = new_token

\* the setup prompt of this get_secure_token call was last answered no
SetupDeclined == GST /\ nSetupPrompt >= 1 /\ choice = "n"

\* C29 as stated: on every path that reaches setup, the one from inside the
\* migration flow included, a single decline of the setup prompt ends
\* get_secure_token with ValueError, the prompt having been shown once.
C29_Original ==
    SetupDeclined =>
        pc = "idle" /\ result = RaiseValueError /\ nSetupPrompt = 1

\* setup was entered from inside _handle_migration and declined, the prompt
\* was shown a second time and answered yes, and get_secure_token has
\* returned the token then entered
C29_Witness ==
    /\ GstReturnedToken /\ setup_ctx = "migration_except"
    /\ nSetupPrompt = 2 /\ choice = "y" /\ nMigPrompt = 1
    /\ result.token = new_token

\* a store_token_securely call is running or has returned, and nothing has
\* touched the file since
InStore == op = "store_token_securely" /\ direct.fn = "__init__"

\* C30: store_token_securely validates before it writes: the file is as the
\* call found it while the validation runs; when the validation returned no
\* identity the call has returned False with the file exactly as it was; and
\* whenever the call has changed the file, the file is a record holding the
\* token passed, for which the validation of this call made a request and
\* returned an identity.
C30_StoresOnlyValidatedTokens ==
    InStore =>
        /\ pc = "validate_attempt" => config_file = cfg0
        /\ (pc = "idle" /\ ~Truthy(user_info)) =>
                result = ReturnBool(FALSE) /\ config_file = cfg0
        /\ config_file # cfg0 =>
                /\ Truthy(user_info) /\ tries >= 1 /\ nValidate = 1
                /\ config_file.kind = "json"
                /\ StoredToken(config_file) = vtoken
        /\ StoreReturned(TRUE) => StoredToken(config_file) = vtoken

\* a store whose validation failed returned False over an existing record,
\* or a store whose validation succeeded replaced that record
C30_Witness ==
    /\ InStore /\ pc = "idle" /\ cfg0.kind = "json" /\ vtoken = TokB
    /\ \/ /\ ~Truthy(user_info) /\ tries = DefaultMaxRetries
          /\ result = ReturnBool(FALSE) /\ config_file = cfg0
       \/ /\ user_info = Identity /\ result = ReturnBool(TRUE)
          /\ config_file # cfg0 /\ StoredToken(config_file) = TokB

====
